---- MODULE Spec2Model ----
(***************************************************************************)
(* Host-process orchestrator of the desktop shell:                         *)
(*   packages/core/src/electron-main/electron-main-application.ts          *)
(*   packages/core/src/electron-main/electron-api-main.ts                  *)
(*                                                                         *)
(* The module is organised in sections, one per subsystem, each with its   *)
(* own specification over the shared variables:                            *)
(*   Spec         window registry, activation stack, openUrl               *)
(*   SpecIpc      correlated request/response over ipcMain                 *)
(*   SpecBoot     boot sequence, worker supervision, worker termination    *)
(*   SpecRestart  in-app restart and the window-all-closed policy          *)
(*   SpecGeometry persisted window geometry, display layout, chrome mode   *)
(*   SpecOverlap  overlap avoidance of createWindow                        *)
(*   SpecSplash   the splash screen race; SpecSplashLive adds fairness     *)
(*   SpecControl  control-plane requests that name a secondary window      *)
(*   SpecShutdown the stop hooks run by 'will-quit'                        *)
(*   SpecLifetime second-instance launches and restarts: one worker        *)
(*   SpecDispatch handleMainCommand on first and second-instance launches  *)
(*   SpecPersist  debounced saves of the window geometry                   *)
(*   SpecPending  requests that are never answered                        *)
(*   SpecChrome   chrome mode chosen at boot                               *)
(*   SpecMenu     set-menu notifications                                   *)
(*   SpecLayout   display-layout fingerprints                              *)
(*   SpecEarly    the early window and the dispatches that reuse it        *)
(*   SpecTargeted replies to correlated requests and their senders         *)
(*   SpecToken    the token cookie and the windows' attach requests        *)
(*   SpecChannel  reply-channel names of correlated requests               *)
(***************************************************************************)
EXTENDS Integers, Sequences, FiniteSets, TLC

VARIABLES
    \* ---- window registry (ElectronMainApplication fields) ----
    windows,            \* keys of the `windows` map: ids of registered windows
    activeWindowStack,  \* the activeWindowStack array, index 1 = JS index 0
    created,            \* number of windows constructed so far; ids are 1..created
    focusHistory,       \* history: ids in order of their last 'focus' event, latest first
    \* ---- one openUrl call (ElectronMainApplication.openUrl) ----
    urlState,           \* "idle" | "awaiting" | "done"
    urlIdx,             \* array-iterator position: number of stack slots consumed
    urlAwait,           \* id of the window whose reply is awaited, 0 if none
    urlAsked,           \* history: ids sent CHANNEL_OPEN_URL by this call, in order
    urlAccepted,        \* id of the window that accepted, 0 if none
    urlStart,           \* history: while the call runs, the registered windows in
                        \* stack order as they were when it started
    \* ---- correlated requests (TheiaRendererAPI, electron-api-main.ts) ----
    nextReplyChannel,   \* the module-level counter nextReplyChannel
    ipcListeners,       \* reply channels with a listener registered on ipcMain
    ipcRequests,        \* request nr+1 -> [kind, state, result] of its promise
    ipcReplies,         \* history: request nr+1 -> channel prefixes replied on, in order
    ipcHandled,         \* history: request nr+1 -> number of listener invocations
    \* ---- boot sequence (ElectronMainApplication.start) ----
    bootPc,             \* position of the async command handler of start()
    bootLog,            \* history: the boot steps performed, in order
    appReady,           \* app.whenReady() has resolved
    backendPort,        \* value of the _backendPort deferred, 0 while unresolved
    tokenUrl,           \* port of the http://localhost:<port> the token cookie is set on, 0 if none
    hookState,          \* per contribution: state of its onStart call
    \* ---- worker supervision (ElectronMainApplication.startBackend) ----
    noBackendFork,      \* process.argv holds --no-cluster
    backend,            \* the promise startBackend() returns: [state, value]
    child,              \* the ChildProcess object: [pid, exitCode, signalCode]
    childEvents,        \* history: events the child object emitted, in order
    procs,              \* OS: live processes of the worker's process group
    spawned,            \* OS: number of descendants the worker has spawned
    quit,               \* the app 'quit' handler: [state, outcome, signalled]
    \* ---- restart (ElectronMainApplication.restart, onWindowAllClosed) ----
    restarting,         \* the `restarting` field
    restartReqs,        \* the restart() calls made: [win, state, confirmed, relaunches]
    allClosedDue,       \* electron has a 'window-all-closed' event to deliver
    quitRequested,      \* requestStop() has called app.quit()
    idleSuppressed,     \* history: 'window-all-closed' was ignored with no restart in progress
    quitDuringRestart,  \* history: quit was requested while a confirmed restart was in progress
    \* ---- window geometry (getLastWindowOptions, avoidOverlap, saveWindowState) ----
    displays,           \* screen.getAllDisplays(): bounds of the attached displays, in enumeration order
    useNativeWindowFrame, \* the `useNativeWindowFrame` field
    windowstate,        \* electronStore 'windowstate': <<>> when absent, else <<options>>
    browserWindows,     \* BrowserWindow.getAllWindows(): geometry of every open BrowserWindow
    lastOptions,        \* history: the getLastWindowOptions() call that just ran, <<>> if none
    lastOverlap,        \* history: the avoidOverlap() call of the createWindow that just ran, <<>> if none
    savedBy,            \* history: id of the window whose geometry 'windowstate' holds, 0 if none
    \* ---- splash screen (ElectronMainApplication.configureAndShowSplashScreen) ----
    splash,             \* the splash window, the two timers and the target window
    now,                \* time passed since the splash was configured
    \* ---- control plane (TheiaMainApi.onStart, electron-api-main.ts) ----
    ctlWindows,         \* BrowserWindow.getAllWindows(): id -> [name, menuBarVisible, minimized]
    focusedWindow,      \* id of the focused BrowserWindow, 0 if none
    openPopups,         \* the openPopups map: menuId -> the Menu object, numbered by creation
    popups,             \* the Menu objects popped up: [menuId, sender, window, displayed, notices]
    lastControl,        \* history: the control-plane request that just ran, <<>> if none
    \* ---- shutdown and dispatch (onWillQuit, onSecondInstance, restart) ----
    willQuit,           \* the 'will-quit' handler: [state, invoked]
    dispatched,         \* handleMainCommand calls made by second-instance launches and restarts
    uriWaiting,         \* createWindowUri calls awaiting backendPort: what dispatched each
    loaded,             \* history: <<dispatcher, port>> of every window whose URL was loaded
    \* ---- command dispatch (ElectronMainApplication.handleMainCommand) ----
    cwd,                \* process.cwd(): the directory of the host process
    realpath,           \* filesystem: absolute path -> its real path, Missing if it has none
    lastDispatch,       \* history: the handleMainCommand call that just ran, <<>> if none
    \* ---- debounced persistence (attachSaveWindowState, saveWindowState) ----
    saveWin,            \* per window with attachSaveWindowState: its state, geometry, timers
    clock,              \* time in ms
    stored,             \* electronStore 'windowstate': <<>> when absent, else <<geometry>>
    lastSave,           \* history: the saveWindowState call that just ran, <<>> if none
    \* ---- reply-channel names (nextReplyChannel over a long run) ----
    replyCounter,       \* the module-level counter nextReplyChannel
    usedNames,          \* history: the reply-channel names of all requests issued
    clash,              \* history: a request was given a name an earlier request had
    \* ---- chrome mode and menus ----
    platform,           \* process.platform once the program has read it, "unread" before
    chromeInput,        \* history: what getTitleBarStyle read at boot, <<>> before
    applicationMenu,    \* the menu set by Menu.setApplicationMenu
    windowMenu,         \* BrowserWindow id -> the menu set by setMenu
    lastSetMenu,        \* history: the set-menu notification just handled, <<>> if none
    \* ---- display layouts ----
    layoutReads,        \* history: the displays and fingerprints of two getCurrentScreenLayout() calls
    \* ---- early window ----
    targeted,           \* correlated requests with the window each was sent to, the sender
                        \* of the reply that resolved each, and the reply listeners on ipcMain
    cookieUrls,         \* the URLs the token cookie was set on at a window's request
    early               \* showInitialWindow's position, the field initialWindow, the main windows
                        \* created and the windows reuseOrCreateWindow returned

winVars == <<windows, activeWindowStack, created, focusHistory>>
urlVars == <<urlState, urlIdx, urlAwait, urlAsked, urlAccepted, urlStart>>
ipcVars == <<nextReplyChannel, ipcListeners, ipcRequests, ipcReplies, ipcHandled>>
bootVars == <<bootPc, bootLog, appReady, backendPort, tokenUrl, hookState>>
workerVars == <<noBackendFork, backend, child, childEvents, procs, spawned, quit>>
restartVars == <<restarting, restartReqs, allClosedDue, quitRequested, idleSuppressed,
                 quitDuringRestart>>
geomVars == <<displays, useNativeWindowFrame, windowstate, browserWindows, lastOptions,
              lastOverlap, savedBy>>
splashVars == <<splash, now>>
controlVars == <<ctlWindows, focusedWindow, openPopups, popups, lastControl>>
lifeVars == <<willQuit, dispatched, uriWaiting, loaded>>
dispatchVars == <<cwd, realpath, lastDispatch>>
\* the sections up to the dispatch of second-instance launches
coreVars == <<winVars, urlVars, ipcVars, bootVars, workerVars, restartVars, geomVars, splashVars,
              controlVars, lifeVars>>
\* the sections from the command dispatch on
persistVars == <<saveWin, clock, stored, lastSave>>
channelVars == <<replyCounter, usedNames, clash>>
chromeVars == <<platform, chromeInput>>
menuVars == <<applicationMenu, windowMenu, lastSetMenu>>
layoutVars == <<layoutReads>>
earlyVars == <<early, targeted, cookieUrls>>
shellVars == <<chromeVars, menuVars, layoutVars, earlyVars>>
moreVars == <<dispatchVars, persistVars, channelVars, shellVars>>
vars == <<coreVars, moreVars>>

\* what the actions of one section leave alone
outsideWin == <<ipcVars, bootVars, workerVars, geomVars, splashVars, controlVars, lifeVars,
                moreVars>>
outsideIpc == <<winVars, urlVars, bootVars, workerVars, restartVars, geomVars, splashVars,
                controlVars, lifeVars, moreVars>>
outsideBoot == <<winVars, urlVars, ipcVars, restartVars, geomVars, splashVars, controlVars,
                 lifeVars, moreVars>>
outsideGeom == <<winVars, urlVars, ipcVars, bootVars, workerVars, restartVars, splashVars,
                 controlVars, lifeVars, moreVars>>
outsideSplash == <<winVars, urlVars, ipcVars, bootVars, workerVars, restartVars, geomVars,
                   controlVars, lifeVars, moreVars>>
outsideControl == <<winVars, urlVars, ipcVars, bootVars, workerVars, restartVars, geomVars,
                    splashVars, lifeVars, moreVars>>
outsideLife == <<winVars, urlVars, ipcVars, bootVars, workerVars, restartVars, geomVars,
                 splashVars, controlVars, moreVars>>
outsideDispatch == <<coreVars, persistVars, channelVars, shellVars>>
outsidePersist == <<coreVars, dispatchVars, channelVars, shellVars>>
outsideChannel == <<coreVars, dispatchVars, persistVars, shellVars>>
outsideShell == <<coreVars, dispatchVars, persistVars, channelVars>>
outsideGeomShell == <<winVars, urlVars, ipcVars, bootVars, workerVars, restartVars, splashVars,
                      controlVars, lifeVars, dispatchVars, persistVars, channelVars>>

\* ------------------------------------------------------------------ bounds
MaxWindows == 2        \* windows opened by launches
MaxRestarts == 2       \* restart() calls
MaxRequests == 2      \* correlated requests issued
MaxReplies == 2       \* messages a renderer sends on the reply channels of one request
NumContributions == 2 \* registered ElectronMainApplicationContributions
MaxChildEvents == 3   \* events the worker's ChildProcess object emits
MaxDescendants == 1   \* processes the worker spawns in its own process group
MaxBrowserWindows == 2 \* BrowserWindows open at the same time
MaxCreated == 3       \* windows created in one session
MaxDuration == 2      \* longest configured splash duration, in time units
MaxReady == 2         \* 'ready' reports of the target window
MaxSecondary == 1     \* secondary windows; the name MaxSecondary + 1 never exists
MaxMenus == 1         \* popup menu ids
MaxPopups == 2        \* popups opened
MaxDispatches == 2    \* second-instance launches and restarts
MaxNames == 1         \* file names in a directory
MaxSaveWindows == 1   \* windows whose geometry is persisted
MaxGeomEvents == 3    \* resize and move events of one window
MaxAllocations == 11  \* correlated requests issued over a long run
MaxDisplays == 2      \* displays attached at a time
MaxClock == 3         \* time explored, in steps of TimeStep
Ports == {3000, 3001}          \* ports a worker may report
ExitCodes == {0, 1}            \* exit codes of the worker

\* ------------------------------------------------------- sequence helpers
\* Array.prototype.indexOf: first position of x in s, 0 when absent (JS -1).
RECURSIVE IndexFrom(_, _, _)
IndexFrom(s, x, i) ==
    IF i > Len(s) THEN 0
    ELSE IF s[i] = x THEN i
    ELSE IndexFrom(s, x, i + 1)

IndexOf(s, x) == IndexFrom(s, x, 1)

\* Array.prototype.splice(i, 1) at 1-based position i.
SpliceOne(s, i) == SubSeq(s, 1, i - 1) \o SubSeq(s, i + 1, Len(s))

Range(s) == {s[i] : i \in 1..Len(s)}

NoDuplicates(s) == \A i, j \in 1..Len(s) : i # j => s[i] # s[j]

\* s without any occurrence of x (history bookkeeping only).
Without(s, x) == SelectSeq(s, LAMBDA y : y # x)

\* ------------------------------------------------- window registry section
\* the body of the onDidClose listener installed by createWindow
StackAfterClose(stack, id) ==
    LET stackIndex == IndexOf(stack, id)
    IN  IF stackIndex >= 1 THEN SpliceOne(stack, stackIndex) ELSE stack

\* the body of the 'focus' listener installed by createWindow
StackAfterFocus(stack, id) ==
    LET stackIndex == IndexOf(stack, id)
        removed == IF stackIndex >= 1 THEN SpliceOne(stack, stackIndex) ELSE stack
    IN  <<id>> \o removed

\* createWindow: activeWindowStack.push(id); windows.set(id, electronWindow)
StackAfterCreate(stack, id) == Append(stack, id)

InitWin ==
    /\ windows = {}
    /\ activeWindowStack = <<>>
    /\ created = 0
    /\ focusHistory = <<>>

InitUrl ==
    /\ urlState = "idle"
    /\ urlIdx = 0
    /\ urlAwait = 0
    /\ urlAsked = <<>>
    /\ urlAccepted = 0
    /\ urlStart = <<>>

\* createWindow(): a new window gets a fresh webContents id
CreateWindow ==
    /\ ~quitRequested
    /\ created < MaxWindows
    /\ LET id == created + 1 IN
        /\ created' = id
        /\ activeWindowStack' = StackAfterCreate(activeWindowStack, id)
        /\ windows' = windows \cup {id}
    /\ UNCHANGED <<focusHistory, urlVars, outsideWin, restartVars>>

\* restart(): the onDidClose listener of a restart() call disposes itself and
\* enters handleMainCommand; it is registered while the call awaits close()
\* and stays registered when close() resolved true
ListenerRegistered(req) == req.state \in {"asking", "confirmed"}

RestartListenersFire(reqs, id) ==
    [i \in DOMAIN reqs |->
        IF reqs[i].win = id /\ ListenerRegistered(reqs[i])
        THEN [reqs[i] EXCEPT !.state = "relaunching", !.relaunches = @ + 1]
        ELSE reqs[i]]

\* (mutant) closing a window settles the openUrl request it was being asked
OnDidCloseSettling(id) ==
    /\ ~quitRequested
    /\ id \in windows
    /\ activeWindowStack' = StackAfterClose(activeWindowStack, id)
    /\ windows' = windows \ {id}
    /\ restartReqs' = RestartListenersFire(restartReqs, id)
    /\ allClosedDue' = (windows' = {})
    /\ IF urlState = "awaiting" /\ urlAwait = id
       THEN /\ urlState' = "done"
            /\ urlAwait' = 0
            /\ urlStart' = <<>>
            /\ UNCHANGED <<urlIdx, urlAsked, urlAccepted>>
       ELSE UNCHANGED urlVars
    /\ UNCHANGED <<created, focusHistory, outsideWin, restarting,
                   quitRequested, idleSuppressed, quitDuringRestart>>

\* window id is closed: the onDidClose listeners run (the one createWindow
\* installed, then those of restart() calls); electron raises
\* 'window-all-closed' when no window is left
OnDidClose(id) ==
    /\ ~quitRequested
    /\ id \in windows
    /\ activeWindowStack' = StackAfterClose(activeWindowStack, id)
    /\ windows' = windows \ {id}
    /\ restartReqs' = RestartListenersFire(restartReqs, id)
    /\ allClosedDue' = (windows' = {})
    /\ UNCHANGED <<created, focusHistory, urlVars, outsideWin, restarting,
                   quitRequested, idleSuppressed, quitDuringRestart>>

\* the 'focus' listener of window id; the listener is never removed, so the
\* event is accepted for every window ever constructed
OnFocus(id) ==
    /\ id \in 1..created
    /\ activeWindowStack' = StackAfterFocus(activeWindowStack, id)
    /\ focusHistory' = <<id>> \o Without(focusHistory, id)
    /\ UNCHANGED <<windows, created, urlVars, outsideWin, restartVars>>

\* ------------------------------------------------------------ openUrl
\* `for (const id of this.activeWindowStack)`: the array iterator reads the
\* live array at its own index; ids without a registered window are passed
\* over synchronously. Result: <<slots consumed, id to ask or 0 at the end>>.
RECURSIVE NextToAsk(_, _, _)
NextToAsk(stack, wins, idx) ==
    IF idx >= Len(stack) THEN <<idx, 0>>
    ELSE IF stack[idx + 1] \in wins THEN <<idx + 1, stack[idx + 1]>>
    ELSE NextToAsk(stack, wins, idx + 1)

\* run the loop from iterator position idx until the next await or the end
UrlContinue(idx) ==
    LET nxt == NextToAsk(activeWindowStack, windows, idx) IN
    /\ urlIdx' = nxt[1]
    /\ urlAwait' = nxt[2]
    /\ urlState' = IF nxt[2] = 0 THEN "done" ELSE "awaiting"
    /\ urlAsked' = IF nxt[2] = 0 THEN urlAsked ELSE Append(urlAsked, nxt[2])
    /\ urlStart' = IF nxt[2] = 0 THEN <<>> ELSE urlStart

\* openUrl(url) is called (open-url event, second instance with --open-url)
OpenUrl ==
    /\ urlState \in {"idle", "done"}
    /\ urlAccepted' = 0
    /\ LET nxt == NextToAsk(activeWindowStack, windows, 0) IN
        /\ urlIdx' = nxt[1]
        /\ urlAwait' = nxt[2]
        /\ urlState' = IF nxt[2] = 0 THEN "done" ELSE "awaiting"
        /\ urlAsked' = IF nxt[2] = 0 THEN <<>> ELSE <<nxt[2]>>
        /\ urlStart' = IF nxt[2] = 0 THEN <<>>
                       ELSE SelectSeq(activeWindowStack, LAMBDA id : id \in windows)
    /\ UNCHANGED <<winVars, outsideWin, restartVars>>

\* the awaited window answers on the reply channel; only a live window can
OpenUrlReply(accept) ==
    /\ urlState = "awaiting"
    /\ urlAwait \in windows
    /\ IF accept
       THEN /\ urlState' = "done"
            /\ urlAccepted' = urlAwait
            /\ urlAwait' = 0
            /\ urlStart' = <<>>
            /\ UNCHANGED <<urlIdx, urlAsked>>
       ELSE /\ UrlContinue(urlIdx)
            /\ UNCHANGED urlAccepted
    /\ UNCHANGED <<winVars, outsideWin, restartVars>>

\* ------------------------------------------- correlated request section
\* reply-channel names: `openUrl${n}`, `aboutToClose${n}`, `confirm-${n}`,
\* `cancel-${n}`, kept as <<prefix, n>>
ChannelName(prefix, n) == <<prefix, n>>

\* the reply channels a request of the given kind listens on
ReplyPrefixes(kind) ==
    CASE kind = "openUrl" -> {"openUrl"}
      [] kind = "aboutToClose" -> {"aboutToClose"}
      [] kind = "requestClose" -> {"confirm-", "cancel-"}
      [] kind = "requestSecondaryClose" -> {"confirm-", "cancel-"}

ReplyChannels(kind, n) == {ChannelName(prefix, n) : prefix \in ReplyPrefixes(kind)}

\* a promise is settled by the first resolve() only
Settle(promise, value) ==
    IF promise.state = "pending"
    THEN [promise EXCEPT !.state = "resolved", !.result = value]
    ELSE promise

\* what the listener on `prefix` passes to resolve(); args[0] of an openUrl
\* reply is supplied by the renderer
ReplyValue(prefix, arg) ==
    CASE prefix = "confirm-" -> TRUE
      [] prefix = "cancel-" -> FALSE
      [] prefix = "openUrl" -> arg
      [] prefix = "aboutToClose" -> "void"

\* (mutant) only the listener that fired is removed
ListenersAfterReplyFiredOnly(listeners, kind, prefix, n) ==
    listeners \ {ChannelName(prefix, n)}

\* openUrl / sendAboutToClose: `l.dispose()` inside the listener;
\* requestClose / requestSecondaryClose: `.finally(() => disposables.dispose())`
ListenersAfterReply(listeners, kind, prefix, n) == listeners \ ReplyChannels(kind, n)

InitIpc ==
    /\ nextReplyChannel = 0
    /\ ipcListeners = {}
    /\ ipcRequests = <<>>
    /\ ipcReplies = <<>>
    /\ ipcHandled = <<>>

\* the common part of the four request functions: allocate the channel
\* number, register the reply listeners, send the request to the renderer
IssueRequest(kind) ==
    /\ nextReplyChannel < MaxRequests
    /\ LET channelNr == nextReplyChannel IN
        /\ nextReplyChannel' = channelNr + 1
        /\ ipcListeners' = ipcListeners \cup ReplyChannels(kind, channelNr)
        /\ ipcRequests' = Append(ipcRequests,
                                 [kind |-> kind, state |-> "pending", result |-> "none"])
        /\ ipcReplies' = Append(ipcReplies, <<>>)
        /\ ipcHandled' = Append(ipcHandled, 0)
    /\ UNCHANGED outsideIpc

SendOpenUrl == IssueRequest("openUrl")

SendAboutToClose == IssueRequest("aboutToClose")

RequestClose == IssueRequest("requestClose")

RequestSecondaryClose == IssueRequest("requestSecondaryClose")

\* ipcMain receives a message on reply channel <<prefix, n>>; without a
\* listener on that channel nothing runs
IpcReply(prefix, n, arg) ==
    /\ n < nextReplyChannel
    /\ prefix \in ReplyPrefixes(ipcRequests[n + 1].kind)
    /\ Len(ipcReplies[n + 1]) < MaxReplies
    /\ ipcReplies' = [ipcReplies EXCEPT ![n + 1] = Append(@, prefix)]
    /\ IF ChannelName(prefix, n) \in ipcListeners
       THEN /\ ipcHandled' = [ipcHandled EXCEPT ![n + 1] = @ + 1]
            /\ ipcRequests' = [ipcRequests EXCEPT
                                  ![n + 1] = Settle(@, ReplyValue(prefix, arg))]
            /\ ipcListeners' = ListenersAfterReply(ipcListeners,
                                                   ipcRequests[n + 1].kind, prefix, n)
       ELSE UNCHANGED <<ipcHandled, ipcRequests, ipcListeners>>
    /\ UNCHANGED <<nextReplyChannel, outsideIpc>>

NextIpc ==
    \/ SendOpenUrl
    \/ SendAboutToClose
    \/ RequestClose
    \/ RequestSecondaryClose
    \/ \E prefix \in {"openUrl", "aboutToClose", "confirm-", "cancel-"},
          n \in 0..(MaxRequests - 1), arg \in BOOLEAN :
            IpcReply(prefix, n, arg)

\* ---------------------------------------------- worker supervision section
\* resolve()/reject() of the promise startBackend returns: the first call
\* settles it, later calls change nothing
SettleBackend(b, state, via, value) ==
    IF b.state = "pending"
    THEN [state |-> state, via |-> via, value |-> value]
    ELSE b

\* backendProcess.on('message', address => resolve(address.port))
OnChildMessage(b, port) == SettleBackend(b, "resolved", "message", port)

\* backendProcess.on('error', error => reject(error))
OnChildError(b, error) == SettleBackend(b, "rejected", "error", error)

\* (mutant) the exit of the worker is not listened to
OnChildExitIgnored(b, code) == b

\* backendProcess.on('exit', code => reject(code)); code is -1 for null
OnChildExit(b, code) == SettleBackend(b, "rejected", "exit", code)

\* the 'quit' handler sends a signal only while exitCode and signalCode are null
WorkerSeemsRunning(c) == c.exitCode = -1 /\ c.signalCode = "null"

\* the argument the 'quit' handler passes to process.kill
KillArgument(pid) == pid

\* process.kill(arg): a positive argument names one process, a negative one
\* the process group led by -arg; the worker is forked detached, so it leads
\* the group its descendants are in
KillTargets(arg, group) ==
    IF arg > 0 THEN {arg} \cap group
    ELSE IF arg < 0 THEN group
    ELSE {}

\* results of the kill system call: a vanished process gives ESRCH (or
\* success while it is still a zombie), a live one success or another error
KillOutcomes(alive) == IF alive THEN {"ok", "EPERM"} ELSE {"ESRCH", "ok"}

\* (mutant) every signal-delivery error is rethrown
QuitThrowsOnAnyError(outcome) == outcome # "ok"

\* catch (error) { if (error.code === 'ESRCH') return; throw error; }
QuitThrows(outcome) == outcome \notin {"ok", "ESRCH"}

\* ---------------------------------------------------- boot sequence section
\* (mutant) the hooks' promises are not awaited
PromiseAllNotAwaited(states) ==
    IF \E i \in DOMAIN states : states[i] = "rejected" THEN "rejected" ELSE "resolved"

\* (mutant) Promise.allSettled in place of Promise.all
PromiseAllSettled(states) ==
    IF \E i \in DOMAIN states : states[i] = "pending" THEN "pending" ELSE "resolved"

\* Promise.all over the promises the onStart hooks returned: rejected with
\* the first rejection, resolved once every one is resolved
PromiseAll(states) ==
    IF \E i \in DOMAIN states : states[i] = "rejected" THEN "rejected"
    ELSE IF \E i \in DOMAIN states : states[i] = "pending" THEN "pending"
    ELSE "resolved"

\* the loop of startContributions: hooks are called in registration order;
\* a hook that throws ends the loop, the later ones are never called
HooksAfterLoop(behaviour) ==
    [i \in DOMAIN behaviour |->
        IF \E j \in DOMAIN behaviour : j < i /\ behaviour[j] = "threw"
        THEN "idle" ELSE behaviour[i]]

InitBoot ==
    /\ bootPc = "init"
    /\ bootLog = <<>>
    /\ appReady = FALSE
    /\ backendPort = 0
    /\ tokenUrl = 0
    /\ hookState = [i \in 1..NumContributions |-> "idle"]

InitWorker ==
    /\ noBackendFork \in BOOLEAN
    /\ backend = [state |-> "none", via |-> "none", value |-> 0]
    /\ child = [pid |-> 0, exitCode |-> -1, signalCode |-> "null"]
    /\ childEvents = <<>>
    /\ procs = {}
    /\ spawned = 0
    /\ quit = [state |-> "none", outcome |-> "none", signalled |-> {},
               running |-> FALSE, group |-> {}]

\* the host process has not received 'quit'
Running == quit.state = "none"

\* start(): the command handler up to `await this.startBackend()`, with the
\* synchronous part of startBackend (the fork, the listeners); a failed
\* spawn leaves backendProcess.pid undefined (0)
Start ==
    /\ Running
    /\ bootPc = "init"
    /\ bootLog' = <<"hookApplicationEvents", "showInitialWindow", "startBackend">>
    /\ bootPc' = "awaitBackend"
    /\ backend' = [backend EXCEPT !.state = "pending"]
    /\ IF noBackendFork
       THEN UNCHANGED <<child, procs>>
       ELSE \E pid \in {0, 1} :
                /\ child' = [child EXCEPT !.pid = pid]
                /\ procs' = IF pid = 0 THEN {} ELSE {pid}
    /\ UNCHANGED <<appReady, backendPort, tokenUrl, hookState, noBackendFork,
                   childEvents, spawned, quit, outsideBoot>>

\* the forked worker reports its address
ChildMessage(port) ==
    /\ Running
    /\ ~noBackendFork /\ child.pid # 0
    /\ WorkerSeemsRunning(child)
    /\ Len(childEvents) < MaxChildEvents
    /\ childEvents' = Append(childEvents, [type |-> "message", value |-> port])
    /\ backend' = OnChildMessage(backend, port)
    /\ UNCHANGED <<bootVars, noBackendFork, child, procs, spawned, quit, outsideBoot>>

\* the ChildProcess object emits 'error' (spawn failed, a send failed)
ChildError(error) ==
    /\ Running
    /\ ~noBackendFork /\ backend.state # "none"
    /\ WorkerSeemsRunning(child)
    /\ Len(childEvents) < MaxChildEvents
    /\ childEvents' = Append(childEvents, [type |-> "error", value |-> error])
    /\ backend' = OnChildError(backend, error)
    /\ UNCHANGED <<bootVars, noBackendFork, child, procs, spawned, quit, outsideBoot>>

\* OS: the worker process ends
WorkerExits ==
    /\ Running
    /\ child.pid \in procs
    /\ procs' = procs \ {child.pid}
    /\ UNCHANGED <<bootVars, noBackendFork, backend, child, childEvents, spawned,
                   quit, outsideBoot>>

\* the ChildProcess object emits 'exit' with an exit code, or with code null
\* (-1) and a signal; node sets exitCode / signalCode before the listeners run
ChildExit(code, signal) ==
    /\ Running
    /\ ~noBackendFork /\ child.pid # 0
    /\ child.pid \notin procs
    /\ WorkerSeemsRunning(child)
    /\ (code = -1) <=> (signal # "null")
    /\ Len(childEvents) < MaxChildEvents
    /\ child' = [child EXCEPT !.exitCode = code, !.signalCode = signal]
    /\ childEvents' = Append(childEvents, [type |-> "exit", value |-> code])
    /\ backend' = OnChildExit(backend, code)
    /\ UNCHANGED <<bootVars, noBackendFork, procs, spawned, quit, outsideBoot>>

\* OS: the worker spawns a process, which stays in the worker's group
WorkerSpawns ==
    /\ Running
    /\ child.pid \in procs
    /\ spawned < MaxDescendants
    /\ spawned' = spawned + 1
    /\ procs' = procs \cup {child.pid + spawned + 1}
    /\ UNCHANGED <<bootVars, noBackendFork, backend, child, childEvents, quit,
                   outsideBoot>>

\* --no-cluster: globalThis.serverAddress settles
InProcessAddress(ok, port) ==
    /\ Running
    /\ noBackendFork /\ backend.state = "pending"
    /\ backend' = IF ok THEN SettleBackend(backend, "resolved", "address", port)
                  ELSE SettleBackend(backend, "rejected", "address", 0)
    /\ UNCHANGED <<bootVars, noBackendFork, child, childEvents, procs, spawned,
                   quit, outsideBoot>>

\* app.on('quit', ...) registered by startBackend in forked mode
Quit ==
    /\ Running
    /\ ~noBackendFork /\ backend.state # "none"
    /\ IF WorkerSeemsRunning(child) /\ child.pid # 0
       THEN \E outcome \in KillOutcomes(child.pid \in procs) :
                quit' = [state |-> IF QuitThrows(outcome) THEN "threw" ELSE "returned",
                         outcome |-> outcome,
                         signalled |-> IF outcome = "ok"
                                       THEN KillTargets(KillArgument(child.pid), procs)
                                       ELSE {},
                         running |-> TRUE,
                         group |-> procs]
       ELSE quit' = [state |-> "returned", outcome |-> "nosignal", signalled |-> {},
                     running |-> WorkerSeemsRunning(child), group |-> procs]
    /\ UNCHANGED <<bootVars, noBackendFork, backend, child, childEvents, procs,
                   spawned, outsideBoot>>

\* start(): `const port = await this.startBackend()` completes; on success
\* `this._backendPort.resolve(port)`, then `await app.whenReady()`
BackendSettled ==
    /\ Running
    /\ bootPc = "awaitBackend"
    /\ backend.state \in {"resolved", "rejected"}
    /\ IF backend.state = "resolved"
       THEN /\ backendPort' = backend.value
            /\ bootLog' = Append(bootLog, "backendPort")
            /\ bootPc' = "awaitReady"
       ELSE /\ bootPc' = "failed"
            /\ UNCHANGED <<backendPort, bootLog>>
    /\ UNCHANGED <<appReady, tokenUrl, hookState, workerVars, outsideBoot>>

\* electron becomes ready
ElectronReady ==
    /\ Running
    /\ ~appReady
    /\ appReady' = TRUE
    /\ UNCHANGED <<bootPc, bootLog, backendPort, tokenUrl, hookState, workerVars,
                   outsideBoot>>

\* start(): `await this.attachElectronSecurityToken(port)` is entered
AttachToken ==
    /\ Running
    /\ bootPc = "awaitReady" /\ appReady
    /\ bootPc' = "awaitToken"
    /\ UNCHANGED <<bootLog, appReady, backendPort, tokenUrl, hookState, workerVars,
                   outsideBoot>>

\* the cookie is set on http://localhost:${port}; start() goes on into
\* startContributions, whose loop calls every onStart hook in turn: a hook
\* is absent ("none"), returns void ("resolved"), returns a promise
\* ("pending") or throws ("threw")
TokenBound(behaviour) ==
    /\ Running
    /\ bootPc = "awaitToken"
    /\ tokenUrl' = backend.value
    /\ bootLog' = bootLog \o <<"tokenBound", "startContributions">>
    /\ hookState' = HooksAfterLoop(behaviour)
    /\ bootPc' = IF \E i \in DOMAIN behaviour : behaviour[i] = "threw"
                 THEN "failed" ELSE "awaitContributions"
    /\ UNCHANGED <<appReady, backendPort, workerVars, outsideBoot>>

\* the promise an onStart hook returned settles
HookSettles(i, ok) ==
    /\ Running
    /\ hookState[i] = "pending"
    /\ hookState' = [hookState EXCEPT ![i] = IF ok THEN "resolved" ELSE "rejected"]
    /\ UNCHANGED <<bootPc, bootLog, appReady, backendPort, tokenUrl, workerVars,
                   outsideBoot>>

\* start(): `await this.startContributions()` completes; on success
\* handleMainCommand({file, cwd, secondInstance: false}) is called
ContributionsSettled ==
    /\ Running
    /\ bootPc = "awaitContributions"
    /\ PromiseAll(hookState) # "pending"
    /\ IF PromiseAll(hookState) = "resolved"
       THEN /\ bootLog' = Append(bootLog, "handleMainCommand")
            /\ bootPc' = "dispatched"
       ELSE /\ bootPc' = "failed"
            /\ UNCHANGED bootLog
    /\ UNCHANGED <<appReady, backendPort, tokenUrl, hookState, workerVars, outsideBoot>>

NextBoot ==
    \/ Start
    \/ \E port \in Ports : ChildMessage(port)
    \/ ChildError(0)
    \/ WorkerExits
    \/ \E code \in ExitCodes : ChildExit(code, "null")
    \/ ChildExit(-1, "SIGTERM")
    \/ WorkerSpawns
    \/ \E ok \in BOOLEAN, port \in Ports : InProcessAddress(ok, port)
    \/ Quit
    \/ BackendSettled
    \/ ElectronReady
    \/ AttachToken
    \/ \E behaviour \in [1..NumContributions -> {"none", "resolved", "pending", "threw"}] :
            TokenBound(behaviour)
    \/ \E i \in 1..NumContributions, ok \in BOOLEAN : HookSettles(i, ok)
    \/ ContributionsSettled

\* ------------------------------------------- shutdown and dispatch section
\* what an onStop hook does: absent, returns, throws
StopBehaviours == {"none", "returns", "throws"}

InitLife ==
    /\ willQuit = [state |-> "none", invoked |-> <<>>, hooks |-> <<>>]
    /\ dispatched = 0
    /\ uriWaiting = <<>>
    /\ loaded = {}

\* the loop of stopContributions from contribution i on: a contribution
\* with an onStop hook has it called; a hook that throws ends the loop
RECURSIVE StopLoop(_, _, _)
StopLoop(behaviour, i, invoked) ==
    IF i \notin DOMAIN behaviour
    THEN [state |-> "returned", invoked |-> invoked, hooks |-> behaviour]
    ELSE IF behaviour[i] = "none" THEN StopLoop(behaviour, i + 1, invoked)
    ELSE IF behaviour[i] = "throws"
    THEN [state |-> "threw", invoked |-> Append(invoked, i), hooks |-> behaviour]
    ELSE StopLoop(behaviour, i + 1, Append(invoked, i))

\* (mutant) every hook is called in a try block, its exception logged
StopContributionsSwallowing(behaviour) ==
    [state |-> "returned",
     invoked |-> SelectSeq([i \in DOMAIN behaviour |-> i],
                           LAMBDA i : behaviour[i] # "none"),
     hooks |-> behaviour]

\* stopContributions(): for (const contribution of getContributions())
StopContributions(behaviour) == StopLoop(behaviour, 1, <<>>)

\* onWillQuit(event): electron emits 'will-quit' once, before 'quit'; the
\* listener is registered by hookApplicationEvents
OnWillQuit(behaviour) ==
    /\ Running
    /\ bootPc # "init"
    /\ willQuit.state = "none"
    /\ willQuit' = StopContributions(behaviour)
    /\ UNCHANGED <<dispatched, uriWaiting, loaded, outsideLife>>

\* the search parameters handleMainCommand's openers pass to createWindowUri
NoParams == <<>>

\* (mutant) the port is left out of the parameters
CreateWindowUriWithoutPort(params, port) == IF params # <<>> THEN params[1] ELSE 0

\* createWindowUri(params): the port of the URI, params.port when given and
\* the value of the backendPort promise otherwise
CreateWindowUri(params, port) == IF params # <<>> THEN params[1] ELSE port

\* handleMainCommand(options): every branch ends in openDefaultWindow() or
\* openWindowWithWorkspace(path), which call createWindowUri() and suspend on
\* `await this.backendPort`
HandleMainCommand(dispatcher) ==
    /\ dispatched < MaxDispatches
    /\ dispatched' = dispatched + 1
    /\ uriWaiting' = Append(uriWaiting, dispatcher)
    /\ UNCHANGED <<willQuit, loaded, outsideLife>>

\* onSecondInstance(event, argv, cwd): with --open-url the url is offered to
\* the windows, otherwise the command line is dispatched
SecondInstance(openUrl) ==
    /\ Running
    /\ bootPc # "init"
    /\ IF openUrl THEN OpenUrl ELSE HandleMainCommand("second-instance")

\* restart(): the onDidClose listener of the closed window dispatches; the
\* request came from a renderer, so a window had been loaded
RestartDispatch ==
    /\ Running
    /\ bootPc = "dispatched" \/ loaded # {}
    /\ HandleMainCommand("restart")

\* createWindowUri continues once backendPort is resolved; the window loads
\* the URI
PortKnown ==
    /\ Running
    /\ uriWaiting # <<>>
    /\ backendPort # 0
    /\ loaded' = loaded \cup {<<Head(uriWaiting), CreateWindowUri(NoParams, backendPort)>>}
    /\ uriWaiting' = Tail(uriWaiting)
    /\ UNCHANGED <<willQuit, dispatched, outsideLife>>

\* the boot sequence without worker failures, and the shutdown
NextShutdown ==
    \/ Start
    \/ \E port \in Ports : ChildMessage(port)
    \/ \E ok \in BOOLEAN, port \in Ports : InProcessAddress(ok, port)
    \/ BackendSettled
    \/ ElectronReady
    \/ AttachToken
    \/ \E behaviour \in [1..NumContributions -> {"none", "resolved", "pending", "threw"}] :
            TokenBound(behaviour)
    \/ \E i \in 1..NumContributions, ok \in BOOLEAN : HookSettles(i, ok)
    \/ ContributionsSettled
    \/ \E behaviour \in [1..NumContributions -> StopBehaviours] : OnWillQuit(behaviour)
    \/ Quit

\* the boot sequence, the worker's exit, and the later dispatches
NextLifetime ==
    \/ Start
    \/ \E port \in Ports : ChildMessage(port)
    \/ WorkerExits
    \/ \E code \in ExitCodes : ChildExit(code, "null")
    \/ \E ok \in BOOLEAN, port \in Ports : InProcessAddress(ok, port)
    \/ BackendSettled
    \/ ElectronReady
    \/ AttachToken
    \/ \E behaviour \in [1..NumContributions -> {"none", "resolved", "pending", "threw"}] :
            TokenBound(behaviour)
    \/ \E i \in 1..NumContributions, ok \in BOOLEAN : HookSettles(i, ok)
    \/ ContributionsSettled
    \/ \E openUrl \in BOOLEAN : SecondInstance(openUrl)
    \/ RestartDispatch
    \/ PortKnown

\* ------------------------------------------------------- geometry section
\* Strings are sequences of character codes.
Hyphen == 45
Zero == 48
Colon == 58

\* the value `undefined` of an optional string field
Undefined == <<0>>

\* decimal digits of a natural number
RECURSIVE Digits(_)
Digits(n) == IF n < 10 THEN <<Zero + n>> ELSE Digits(n \div 10) \o <<Zero + (n % 10)>>

\* `${n}` for an integer n
NumberString(n) == IF n < 0 THEN <<Hyphen>> \o Digits(0 - n) ELSE Digits(n)

\* `${display.bounds.x}:${display.bounds.y}:${display.bounds.width}:${display.bounds.height}`
DisplayString(b) ==
    NumberString(b.x) \o <<Colon>> \o NumberString(b.y) \o <<Colon>>
        \o NumberString(b.width) \o <<Colon>> \o NumberString(b.height)

\* a < b in the order of Array.prototype.sort() without comparator (by code units)
RECURSIVE StringLess(_, _)
StringLess(a, b) ==
    IF b = <<>> THEN FALSE
    ELSE IF a = <<>> THEN TRUE
    ELSE IF Head(a) # Head(b) THEN Head(a) < Head(b)
    ELSE StringLess(Tail(a), Tail(b))

\* Array.prototype.sort() of an array of strings
RECURSIVE InsertSorted(_, _)
InsertSorted(sorted, str) ==
    IF sorted = <<>> THEN <<str>>
    ELSE IF StringLess(str, Head(sorted)) THEN <<str>> \o sorted
    ELSE <<Head(sorted)>> \o InsertSorted(Tail(sorted), str)

RECURSIVE SortStrings(_)
SortStrings(strs) ==
    IF strs = <<>> THEN <<>> ELSE InsertSorted(SortStrings(Tail(strs)), Head(strs))

\* Array.prototype.join('-')
RECURSIVE JoinStrings(_)
JoinStrings(strs) ==
    IF strs = <<>> THEN <<>>
    ELSE IF Len(strs) = 1 THEN Head(strs)
    ELSE Head(strs) \o <<Hyphen>> \o JoinStrings(Tail(strs))

\* (mutant) the fingerprint without the sort
GetCurrentScreenLayoutUnsorted(ds) ==
    JoinStrings([i \in 1..Len(ds) |-> DisplayString(ds[i])])

\* getCurrentScreenLayout()
GetCurrentScreenLayout(ds) ==
    JoinStrings(SortStrings([i \in 1..Len(ds) |-> DisplayString(ds[i])]))

\* Math.round(n / d) for d > 0: the nearest integer, halves towards +infinity
RoundDiv(n, d) == (2 * n + d) \div (2 * d)

\* getDefaultTheiaWindowBounds() for the bounds of the display nearest the cursor
GetDefaultTheiaWindowBounds(bounds) ==
    LET height == RoundDiv(bounds.height * 2, 3)
        width == RoundDiv(bounds.width * 2, 3)
    IN  [width |-> width,
         height |-> height,
         x |-> RoundDiv(2 * bounds.x + (bounds.width - width), 2),
         y |-> RoundDiv(2 * bounds.y + (bounds.height - height), 2)]

\* getDefaultTheiaWindowOptions(); getDefaultOptions() adds no geometry, the
\* application's configuration has no electron.windowOptions
GetDefaultTheiaWindowOptions(frame, bounds) ==
    LET b == GetDefaultTheiaWindowBounds(bounds)
    IN  [frame |-> frame, isFullScreen |-> FALSE, isMaximized |-> FALSE,
         width |-> b.width, height |-> b.height, x |-> b.x, y |-> b.y,
         screenLayout |-> Undefined]

\* getLastWindowOptions() without the comparison of the screen layouts
GetLastWindowOptionsAnyLayout(previous, frame, ds, cursor) ==
    IF previous # <<>> THEN previous[1] ELSE GetDefaultTheiaWindowOptions(frame, ds[cursor])

\* getLastWindowOptions(): `previous` is electronStore.get('windowstate')
GetLastWindowOptions(previous, frame, ds, cursor) ==
    IF previous # <<>> /\ previous[1].screenLayout = GetCurrentScreenLayout(ds)
    THEN previous[1]
    ELSE GetDefaultTheiaWindowOptions(frame, ds[cursor])

\* the step avoidOverlap moves a candidate by, on both axes
Offset == 30

\* (mutant) the loop condition compares the x coordinates only
CoincidesOnX(existing, options) ==
    \E i \in 1..Len(existing) : existing[i].x = options.x

\* existingWindowsBounds.some(window => window.x === options.x || window.y === options.y)
Coincides(existing, options) ==
    \E i \in 1..Len(existing) : existing[i].x = options.x \/ existing[i].y = options.y

\* the while loop of avoidOverlap; `iterations` counts the passes made so far
RECURSIVE AvoidOverlapLoop(_, _, _, _, _)
AvoidOverlapLoop(options, existing, frame, bounds, iterations) ==
    IF Coincides(existing, options)
    THEN LET base == IF options.isMaximized \/ options.isFullScreen
                     THEN GetDefaultTheiaWindowOptions(frame, bounds)
                     ELSE options
             moved == [base EXCEPT !.x = @ + Offset, !.y = @ + Offset]
         IN  AvoidOverlapLoop(moved, existing, frame, bounds, iterations + 1)
    ELSE [options |-> options, iterations |-> iterations]

\* avoidOverlap that moves every candidate once when a window exists
AvoidOverlapAlwaysOffsets(options, existing, frame, bounds) ==
    IF Len(existing) > 0
    THEN AvoidOverlapLoop([options EXCEPT !.x = @ + Offset, !.y = @ + Offset],
                          existing, frame, bounds, 1)
    ELSE [options |-> options, iterations |-> 0]

\* avoidOverlap that replaces a maximized candidate before it looks for a coincidence
AvoidOverlapResetsMaximized(options, existing, frame, bounds) ==
    IF Len(existing) > 0
    THEN AvoidOverlapLoop(IF options.isMaximized \/ options.isFullScreen
                          THEN GetDefaultTheiaWindowOptions(frame, bounds) ELSE options,
                          existing, frame, bounds, 0)
    ELSE [options |-> options, iterations |-> 0]

\* avoidOverlap(options): the geometry returned and the passes of the loop
AvoidOverlap(options, existing, frame, bounds) ==
    IF Len(existing) > 0
    THEN AvoidOverlapLoop(options, existing, frame, bounds, 0)
    ELSE [options |-> options, iterations |-> 0]

\* the BrowserWindow the window factory builds from the options
WindowOf(id, options) ==
    [id |-> id, x |-> options.x, y |-> options.y, width |-> options.width,
     height |-> options.height, isMaximized |-> options.isMaximized,
     isFullScreen |-> options.isFullScreen, frame |-> options.frame]

\* the options saveWindowState() builds from a window
SavedOptions(w, frame, ds) ==
    [isFullScreen |-> w.isFullScreen, isMaximized |-> w.isMaximized,
     width |-> w.width, height |-> w.height, x |-> w.x, y |-> w.y,
     frame |-> frame, screenLayout |-> GetCurrentScreenLayout(ds)]

\* the display layouts explored
Primary == [x |-> 0, y |-> 0, width |-> 90, height |-> 60]
Secondary == [x |-> 90, y |-> 0, width |-> 100, height |-> 50]
Layouts == {<<Primary>>, <<Primary, Secondary>>, <<Secondary, Primary>>}

DefaultPosition == GetDefaultTheiaWindowBounds(Primary)

\* window positions on the grid of Offset steps from the default position
GridPositions ==
    {[x |-> DefaultPosition.x + Offset * i, y |-> DefaultPosition.y + Offset * j] :
        i, j \in 0..(2 * MaxBrowserWindows)}

\* the default position and the top-left corner of the primary display
NearPositions ==
    {[x |-> DefaultPosition.x, y |-> DefaultPosition.y], [x |-> Primary.x, y |-> Primary.y]}

\* options of a window at a position: plain, maximized or fullscreen
OptionsAt(pos, maximized, fullscreen) ==
    [frame |-> TRUE, isFullScreen |-> fullscreen, isMaximized |-> maximized,
     width |-> DefaultPosition.width, height |-> DefaultPosition.height,
     x |-> pos.x, y |-> pos.y, screenLayout |-> Undefined]

\* the open windows, in creation order, are the windows 1..n
Numbered(optionsSeq) == [i \in 1..Len(optionsSeq) |-> WindowOf(i, optionsSeq[i])]

\* sequences of at most n elements of S
RECURSIVE SeqsUpTo(_, _)
SeqsUpTo(S, n) ==
    IF n = 0 THEN {<<>>}
    ELSE LET shorter == SeqsUpTo(S, n - 1)
         IN  shorter \cup {Append(q, e) : q \in {r \in shorter : Len(r) = n - 1}, e \in S}

\* geometry of the windows open when the exploration starts
NearConfigs ==
    {Numbered(q) : q \in SeqsUpTo({OptionsAt(pos, m, FALSE) : pos \in NearPositions,
                                                            m \in BOOLEAN},
                                  MaxBrowserWindows)}

\* windows listed left to right (the order does not matter to avoidOverlap)
LeftToRight(q) ==
    \A i \in 1..(Len(q) - 1) :
        q[i].x < q[i + 1].x \/ (q[i].x = q[i + 1].x /\ q[i].y <= q[i + 1].y)

GridConfigs ==
    {Numbered(q) : q \in {r \in SeqsUpTo({OptionsAt(pos, FALSE, FALSE) : pos \in GridPositions},
                                         MaxBrowserWindows) : LeftToRight(r)}}

\* the state a session is in when n windows are open
InitSession(config) ==
    /\ browserWindows = config
    /\ windows = 1..Len(config)
    /\ activeWindowStack = [i \in 1..Len(config) |-> i]
    /\ created = Len(config)
    /\ focusHistory = <<>>
    /\ displays = <<Primary>>
    /\ useNativeWindowFrame = TRUE
    /\ windowstate = <<>>
    /\ lastOptions = <<>>
    /\ lastOverlap = <<>>
    /\ savedBy = 0

InitGeom == InitSession(<<>>)

\* createWindow(options): avoidOverlap, the window factory, the registry
CreateWindowFrom(options, cursor) ==
    /\ created < MaxCreated
    /\ LET r == AvoidOverlap(options, browserWindows, useNativeWindowFrame, displays[cursor])
           id == created + 1
       IN  /\ created' = id
           /\ activeWindowStack' = StackAfterCreate(activeWindowStack, id)
           /\ windows' = windows \cup {id}
           /\ browserWindows' = Append(browserWindows, WindowOf(id, r.options))
           /\ lastOverlap' =
                 <<[candidate |-> options, existing |-> browserWindows,
                    options |-> r.options, iterations |-> r.iterations,
                    again |-> AvoidOverlap(r.options, browserWindows, useNativeWindowFrame,
                                           displays[cursor]).options]>>
    /\ UNCHANGED <<focusHistory, urlVars, ipcVars, bootVars, workerVars, restartVars, splashVars, controlVars, lifeVars,
                   moreVars>>

\* openWindowWithWorkspace(): getLastWindowOptions(), then createWindow
OpenWindowWithWorkspace(cursor) ==
    /\ cursor \in 1..Len(displays)
    /\ LET options == GetLastWindowOptions(windowstate, useNativeWindowFrame, displays, cursor)
       IN  /\ CreateWindowFrom(options, cursor)
           /\ lastOptions' = <<[previous |-> windowstate, displays |-> displays,
                                cursor |-> cursor, frame |-> useNativeWindowFrame,
                                result |-> options]>>
    /\ UNCHANGED <<displays, useNativeWindowFrame, windowstate, savedBy>>

\* openDefaultWindow(): getDefaultTheiaWindowOptions(), then createWindow
OpenDefaultWindow(cursor) ==
    /\ cursor \in 1..Len(displays)
    /\ CreateWindowFrom(GetDefaultTheiaWindowOptions(useNativeWindowFrame, displays[cursor]),
                        cursor)
    /\ lastOptions' = <<>>
    /\ UNCHANGED <<displays, useNativeWindowFrame, windowstate, savedBy>>

\* createWindow(options) with options of the caller's choice
CreateWindowAt(options) ==
    /\ CreateWindowFrom(options, 1)
    /\ lastOptions' = <<>>
    /\ UNCHANGED <<displays, useNativeWindowFrame, windowstate, savedBy>>

\* saveWindowState(window i): the delayed save after 'resize' or 'move'
SaveWindowState(i) ==
    /\ i \in 1..Len(browserWindows)
    /\ windowstate' = <<SavedOptions(browserWindows[i], useNativeWindowFrame, displays)>>
    /\ savedBy' = browserWindows[i].id
    /\ lastOptions' = <<>>
    /\ lastOverlap' = <<>>
    /\ UNCHANGED <<displays, useNativeWindowFrame, browserWindows, outsideGeom>>

\* setTitleBarStyle(webContents, style): the field, then saveState(webContents)
SetTitleBarStyle(i, native, isOSX) ==
    /\ i \in 1..Len(browserWindows)
    /\ useNativeWindowFrame' = (isOSX \/ native)
    /\ windowstate' = <<SavedOptions(browserWindows[i], useNativeWindowFrame', displays)>>
    /\ savedBy' = browserWindows[i].id
    /\ lastOptions' = <<>>
    /\ lastOverlap' = <<>>
    /\ UNCHANGED <<displays, browserWindows, outsideGeom>>

\* window i is closed: the 'close' listener saves its state, then the
\* onDidClose listeners run and the window leaves BrowserWindow.getAllWindows()
CloseBrowserWindow(i) ==
    /\ i \in 1..Len(browserWindows)
    /\ LET w == browserWindows[i]
       IN  /\ windowstate' = <<SavedOptions(w, useNativeWindowFrame, displays)>>
           /\ savedBy' = w.id
           /\ browserWindows' = SpliceOne(browserWindows, i)
           /\ activeWindowStack' = StackAfterClose(activeWindowStack, w.id)
           /\ windows' = windows \ {w.id}
           /\ restartReqs' = RestartListenersFire(restartReqs, w.id)
           /\ allClosedDue' = (windows' = {})
    /\ lastOptions' = <<>>
    /\ lastOverlap' = <<>>
    /\ UNCHANGED <<displays, useNativeWindowFrame, created, focusHistory, urlVars, ipcVars,
                   bootVars, workerVars, restarting, quitRequested, idleSuppressed,
                   quitDuringRestart, splashVars, controlVars, lifeVars, moreVars>>

\* a display is attached, detached or enumerated in another order
DisplaysChanged(layout) ==
    /\ layout # displays
    /\ displays' = layout
    /\ lastOptions' = <<>>
    /\ lastOverlap' = <<>>
    /\ UNCHANGED <<useNativeWindowFrame, windowstate, browserWindows, savedBy, outsideGeom>>

NextGeometry ==
    \/ \E cursor \in 1..2 : OpenWindowWithWorkspace(cursor)
    \/ \E cursor \in 1..2 : OpenDefaultWindow(cursor)
    \/ \E i \in 1..MaxCreated : SaveWindowState(i)
    \/ \E i \in 1..MaxCreated, native, isOSX \in BOOLEAN : SetTitleBarStyle(i, native, isOSX)
    \/ \E i \in 1..MaxCreated : CloseBrowserWindow(i)
    \/ \E layout \in Layouts : DisplaysChanged(layout)

\* candidates handed to createWindow: near the default position, plain,
\* maximized or fullscreen
Candidates ==
    {OptionsAt(pos, m, f) :
        pos \in {[x |-> DefaultPosition.x + Offset * i, y |-> DefaultPosition.y + Offset * j] :
                    i, j \in 0..1} \cup NearPositions,
        m, f \in BOOLEAN}

NextOverlap == \E options \in Candidates : CreateWindowAt(options)

\* ---------------------------------------------------------- splash section
\* configured durations and the time explored
Durations == 0..MaxDuration
MaxTime == MaxDuration + 1

InitSplash ==
    /\ splash = [window |-> "none", minDuration |-> 0, maxDuration |-> 0,
                 minTime |-> "none", maxTime |-> "none", waiting |-> 0,
                 mainVisible |-> FALSE, transitions |-> 0, lateCloses |-> 0,
                 closedAt |-> -1, readyCount |-> 0, readyAt |-> -1]
    /\ now = 0

\* cancelTokenSource.cancel(): a timer that has not fired is cleared
Cancelled(timer) == IF timer = "pending" THEN "cancelled" ELSE timer

\* showWindowAndCloseSplashScreen() at time t
ShowWindowAndCloseSplashScreen(st, t) ==
    [st EXCEPT !.minTime = Cancelled(@),
               !.maxTime = Cancelled(@),
               !.mainVisible = TRUE,
               !.window = "closed",
               !.closedAt = IF st.window = "open" THEN t ELSE @,
               !.lateCloses = IF st.window = "open" THEN @ ELSE @ + 1,
               !.transitions = @ + 1]

\* f applied n times
RECURSIVE Repeat(_, _, _)
Repeat(st, t, n) ==
    IF n = 0 THEN st ELSE Repeat(ShowWindowAndCloseSplashScreen(st, t), t, n - 1)

\* maxTime.then(() => showWindowAndCloseSplashScreen()) that does nothing
AfterMaxTimeNothing(st, t) == [st EXCEPT !.maxTime = "resolved"]

\* the maximum timer fires: maxTime.then(() => showWindowAndCloseSplashScreen())
AfterMaxTime(st, t) ==
    ShowWindowAndCloseSplashScreen([st EXCEPT !.maxTime = "resolved"], t)

\* the minimum timer fires: every minTime.then(...) registered by a 'ready'
\* report runs
AfterMinTime(st, t) ==
    Repeat([st EXCEPT !.minTime = "resolved", !.waiting = 0], t, st.waiting)

\* the listener of onApplicationStateChanged for state 'ready':
\* minTime.then(() => showWindowAndCloseSplashScreen())
OnReady(st, t) ==
    LET seen == [st EXCEPT !.readyCount = @ + 1,
                           !.readyAt = IF st.readyCount = 0 THEN t ELSE @]
    IN  CASE st.minTime = "resolved" -> ShowWindowAndCloseSplashScreen(seen, t)
          [] st.minTime = "pending" -> [seen EXCEPT !.waiting = @ + 1]
          [] OTHER -> seen

\* configureAndShowSplashScreen(mainWindow) with the configured durations
ConfigureAndShowSplashScreen(minDuration, maxDuration) ==
    /\ splash.window = "none"
    /\ splash' = [splash EXCEPT !.window = "open", !.minDuration = minDuration,
                                !.maxDuration = maxDuration,
                                !.minTime = "pending", !.maxTime = "pending"]
    /\ now' = 0
    /\ UNCHANGED outsideSplash

\* the target window reports the application state 'ready'
Ready ==
    /\ splash.window # "none"
    /\ splash.readyCount < MaxReady
    /\ splash' = OnReady(splash, now)
    /\ UNCHANGED <<now, outsideSplash>>

MinDue == splash.minTime = "pending" /\ splash.minDuration <= now
MaxDue == splash.maxTime = "pending" /\ splash.maxDuration <= now

\* the timer of minTime fires
MinTimeFires ==
    /\ MinDue
    /\ ~(MaxDue /\ splash.maxDuration < splash.minDuration)
    /\ splash' = AfterMinTime(splash, now)
    /\ UNCHANGED <<now, outsideSplash>>

\* the timer of maxTime fires; of two timers due the one with the earlier
\* deadline fires first, the minimum timer on a tie
MaxTimeFires ==
    /\ MaxDue
    /\ ~(MinDue /\ splash.minDuration <= splash.maxDuration)
    /\ splash' = AfterMaxTime(splash, now)
    /\ UNCHANGED <<now, outsideSplash>>

\* time passes; a timer that is due fires first
Tick ==
    /\ splash.window # "none"
    /\ now < MaxTime
    /\ ~MinDue
    /\ ~MaxDue
    /\ now' = now + 1
    /\ UNCHANGED <<splash, outsideSplash>>

NextSplash ==
    \/ \E minDuration, maxDuration \in Durations :
          ConfigureAndShowSplashScreen(minDuration, maxDuration)
    \/ Ready
    \/ MinTimeFires
    \/ MaxTimeFires
    \/ Tick

\* ------------------------------------------------- reply channel section
\* the characters of the channel prefixes 'openUrl', 'aboutToClose',
\* 'confirm-' and 'cancel-'
PrefixString(prefix) ==
    CASE prefix = "openUrl" -> <<111, 112, 101, 110, 85, 114, 108>>
      [] prefix = "aboutToClose" -> <<97, 98, 111, 117, 116, 84, 111, 67, 108, 111, 115, 101>>
      [] prefix = "confirm-" -> <<99, 111, 110, 102, 105, 114, 109, Hyphen>>
      [] prefix = "cancel-" -> <<99, 97, 110, 99, 101, 108, Hyphen>>

\* `${prefix}${channelNr}`
ChannelString(prefix, channelNr) == PrefixString(prefix) \o NumberString(channelNr)

\* the reply-channel names of a request of the given kind
ReplyChannelNames(kind, channelNr) ==
    {ChannelString(prefix, channelNr) : prefix \in ReplyPrefixes(kind)}

\* (mutant) the counter is read without being incremented
CounterKept(channelNr) == channelNr

\* nextReplyChannel++ leaves the counter one higher
CounterAfter(channelNr) == channelNr + 1

InitChannel ==
    /\ replyCounter = 0
    /\ usedNames = {}
    /\ clash = FALSE

\* openUrl, sendAboutToClose, requestClose or requestSecondaryClose is
\* called: `const channelNr = nextReplyChannel++` and the names built from it
AllocateReplyChannels(kind) ==
    LET names == ReplyChannelNames(kind, replyCounter)
    IN  /\ replyCounter < MaxAllocations
        /\ replyCounter' = CounterAfter(replyCounter)
        /\ usedNames' = usedNames \cup names
        /\ clash' = (clash \/ names \cap usedNames # {}
                           \/ Cardinality(names) # Cardinality(ReplyPrefixes(kind)))
        /\ UNCHANGED outsideChannel

NextChannel ==
    \E kind \in {"openUrl", "aboutToClose", "requestClose", "requestSecondaryClose"} :
        AllocateReplyChannels(kind)

\* ------------------------------------------------- chrome mode section
Platforms == {"darwin", "win32", "linux"}

\* isOSX, isWindows
IsOSX(p) == p = "darwin"
IsWindows(p) == p = "win32"

\* process.platform is fixed for a run; it is settled by the first read
ReadPlatform(p) ==
    /\ platform \in {"unread", p}
    /\ platform' = p

\* a value that is not set (undefined)
NotSet == "undefined"

\* process.env.THEIA_ELECTRON_DISABLE_NATIVE_ELEMENTS
EnvValues == {NotSet, "1", "0", "true", ""}

\* electronStore.get('windowstate'): no record, a record written before the
\* frame was stored, or a record with the frame saveWindowState stored
StoredStates ==
    {[present |-> FALSE, frame |-> NotSet]}
        \cup [present : {TRUE}, frame : {NotSet, "true", "false"}]

\* config.preferences: absent, or with a value of 'window.titleBarStyle'
Preferences ==
    {[present |-> FALSE, titleBarStyle |-> NotSet]}
        \cup [present : {TRUE},
              titleBarStyle : {NotSet, "native", "custom", "hidden", ""}]

ChromeInputs ==
    [platform : Platforms, env : EnvValues, windowstate : StoredStates,
     preferences : Preferences]

\* electronStore.get('windowstate')?.frame
StoredFrame(state) ==
    IF state.present THEN state.frame ELSE NotSet

\* JavaScript truthiness of the values above (`!!v`, `if (v)`)
Truthy(v) == v \notin {NotSet, "", "false"}

\* (mutant) the configured preference is looked at before the stored frame
GetTitleBarStylePreferenceFirst(in) ==
    IF in.env = "1" THEN "custom"
    ELSE IF IsOSX(in.platform) THEN "native"
    ELSE IF /\ in.preferences.present
            /\ in.preferences.titleBarStyle \in {"native", "custom"}
         THEN in.preferences.titleBarStyle
    ELSE IF StoredFrame(in.windowstate) # NotSet
         THEN (IF Truthy(StoredFrame(in.windowstate)) THEN "native" ELSE "custom")
    ELSE IF IsWindows(in.platform) THEN "custom" ELSE "native"

\* getTitleBarStyle(config)
GetTitleBarStyle(in) ==
    IF in.env = "1" THEN "custom"
    ELSE IF IsOSX(in.platform) THEN "native"
    ELSE IF StoredFrame(in.windowstate) # NotSet
         THEN (IF Truthy(StoredFrame(in.windowstate)) THEN "native" ELSE "custom")
    ELSE IF /\ in.preferences.present
            /\ Truthy(in.preferences.titleBarStyle)
            /\ in.preferences.titleBarStyle \in {"native", "custom"}
         THEN in.preferences.titleBarStyle
    ELSE IF IsWindows(in.platform) THEN "custom" ELSE "native"

InitChrome ==
    /\ platform = "unread"
    /\ chromeInput = <<>>

\* start(): `this.useNativeWindowFrame = this.getTitleBarStyle(config) === 'native'`
DecideChrome(in) ==
    /\ chromeInput = <<>>
    /\ ReadPlatform(in.platform)
    /\ chromeInput' = in
    /\ useNativeWindowFrame' = (GetTitleBarStyle(in) = "native")
    /\ UNCHANGED <<displays, windowstate, browserWindows, lastOptions, lastOverlap, savedBy,
                   menuVars, layoutVars, earlyVars, outsideGeomShell>>

\* -------------------------------------------------------- menu section
\* an absent string (undefined)
NoString == <<0 - 1>>

\* accelerators of menu items: none, "S", and the one character U+2318
Accelerators == {NoString, <<83>>, <<8984>>}

\* menu items without a submenu, as the renderer sends them
\* an absent handler id (undefined); handler ids are numbers from 0 on
NoHandler == 0 - 1

LeafDtos ==
    [id : {1}, label : {1}, type : {"normal"}, enabled : BOOLEAN, visible : {TRUE},
     accelerator : Accelerators, handlerId : {NoHandler, 0, 1},
     hasSubmenu : {FALSE}, submenu : {<<>>}]

\* top-level items: leaves, and items with an empty or a one-item submenu
TopDtos ==
    LeafDtos \cup
    [id : {2}, label : {2}, type : {"submenu"}, enabled : {TRUE}, visible : {TRUE},
     accelerator : {NoString}, handlerId : {NoHandler},
     hasSubmenu : {TRUE}, submenu : {<<>>} \cup {<<leaf>> : leaf \in LeafDtos}]

\* the `menu` argument of a set-menu notification: a tree, null or undefined
MenuArguments ==
    {[kind |-> "null", items |-> <<>>], [kind |-> "undefined", items |-> <<>>]}
        \cup [kind : {"array"}, items : {<<>>} \cup {<<dto>> : dto \in TopDtos}]

\* the senders of notifications: <<webContents id, BrowserWindow id>>, the
\* second 0 when BrowserWindow.fromWebContents finds no window
Senders == {<<1, 1>>, <<2, 0>>}

NoMenu == [kind |-> "null", items |-> <<>>]

\* isASCI(accelerator)
IsASCI(accelerator) ==
    /\ accelerator # NoString
    /\ \A i \in 1..Len(accelerator) : accelerator[i] <= 127

\* `if (dto.handlerId)`: undefined and 0 are falsy
TruthyNumber(n) == n \notin {NoHandler, 0}

\* fromMenuDto(sender, menuId, menuDto): the click handler of an item with a
\* handler id sends CHANNEL_INVOKE_MENU with the menu id and the handler id
RECURSIVE FromMenuDto(_, _, _)
FromMenuDto(sender, menuId, menuDto) ==
    [i \in 1..Len(menuDto) |->
        LET dto == menuDto[i] IN
        [id |-> dto.id,
         label |-> dto.label,
         type |-> dto.type,
         enabled |-> dto.enabled,
         visible |-> dto.visible,
         accelerator |-> IF IsASCI(dto.accelerator) THEN dto.accelerator ELSE NoString,
         hasSubmenu |-> dto.hasSubmenu,
         submenu |-> IF dto.hasSubmenu
                     THEN FromMenuDto(sender, menuId, dto.submenu) ELSE <<>>,
         click |-> IF TruthyNumber(dto.handlerId)
                   THEN <<sender[1], menuId, dto.handlerId>> ELSE <<>>]]

\* Menu.buildFromTemplate(template)
BuildFromTemplate(template) == [kind |-> "menu", items |-> template]

\* `if (menu)`: an array is truthy, null and undefined are not
HasMenu(menu) == menu.kind = "array"

\* the handler of CHANNEL_SET_MENU. The menu is installed or cleared first;
\* the logging loop `menu.forEach(...)` that follows throws a TypeError when
\* menu is null or undefined
SetMenuOutcome(p, appMenu, winMenu, sender, menuId, menu) ==
    LET electronMenu == IF HasMenu(menu)
                        THEN BuildFromTemplate(FromMenuDto(sender, menuId, menu.items))
                        ELSE NoMenu
    IN  [applicationMenu |-> IF IsOSX(p) THEN electronMenu ELSE appMenu,
         windowMenu |-> IF ~IsOSX(p) /\ sender[2] \in DOMAIN winMenu
                        THEN [winMenu EXCEPT ![sender[2]] = electronMenu]
                        ELSE winMenu,
         threw |-> menu.kind # "array"]

InitMenu ==
    /\ applicationMenu = [kind |-> "default", items |-> <<>>]
    /\ windowMenu = [w \in {1} |-> [kind |-> "default", items |-> <<>>]]
    /\ lastSetMenu = <<>>

\* a renderer sends CHANNEL_SET_MENU
SetMenu(p, sender, menuId, menu) ==
    LET out == SetMenuOutcome(p, applicationMenu, windowMenu, sender, menuId, menu)
    IN  /\ ReadPlatform(p)
        /\ applicationMenu' = out.applicationMenu
        /\ windowMenu' = out.windowMenu
        /\ lastSetMenu' = [sender |-> sender, menuId |-> menuId, menu |-> menu,
                           threw |-> out.threw]
        /\ UNCHANGED <<chromeInput, layoutVars, earlyVars, outsideShell>>

NextChrome == \E in \in ChromeInputs : DecideChrome(in)

NextMenu ==
    \E p \in Platforms, sender \in Senders, menuId \in 1..MaxMenus,
       menu \in MenuArguments :
        SetMenu(p, sender, menuId, menu)

\* ------------------------------------------------ display layout section
\* bounds of displays: one at the origin, one left of it, one above it and
\* a larger one at the origin
DisplayBounds ==
    {[x |-> 0, y |-> 0, width |-> 1920, height |-> 1080],
     [x |-> 0 - 1920, y |-> 0, width |-> 1920, height |-> 1080],
     [x |-> 0, y |-> 0 - 1080, width |-> 1920, height |-> 1080],
     [x |-> 0, y |-> 0, width |-> 2560, height |-> 1440]}

\* screen.getAllDisplays(): the attached displays in some enumeration order
DisplayLists == UNION {[1..n -> DisplayBounds] : n \in 0..MaxDisplays}

InitLayout == layoutReads = <<>>

\* getCurrentScreenLayout() is called when the window state is saved and
\* again when it is restored, with the displays attached at each time; one
\* such pair of calls is followed
ReadScreenLayouts(saved, current) ==
    /\ layoutReads = <<>>
    /\ layoutReads' = <<[saved |-> saved, current |-> current,
                         savedLayout |-> GetCurrentScreenLayout(saved),
                         currentLayout |-> GetCurrentScreenLayout(current)]>>
    /\ UNCHANGED <<chromeVars, menuVars, earlyVars, outsideShell>>

NextLayout == \E saved, current \in DisplayLists : ReadScreenLayouts(saved, current)

\* -------------------------------------------------- early window section
InitEarly ==
    /\ early = [pc |-> "idle", initialWindow |-> 0, created |-> 0, handed |-> <<>>]
    /\ targeted = [requests |-> <<>>, listeners |-> {}]
    /\ cookieUrls = {}

\* Continuations of resolved promises run before the next event is taken.
\* Such continuations are: showInitialWindow within start(), the callback of
\* app.whenReady() once electron is ready, and what follows its awaits of
\* getLastWindowOptions() and createWindow(), neither of which waits for
\* anything outside the process
ContinuationPending ==
    \/ early.pc = "idle" /\ bootPc # "init"
    \/ early.pc = "whenReady" /\ appReady
    \/ early.pc \in {"options", "createWindow"}

\* showInitialWindow(urlToOpen): with the early window or the splash screen
\* enabled a callback is left on app.whenReady()
ShowInitialWindow(enabled) ==
    /\ early.pc = "idle" /\ bootPc # "init"
    /\ early' = [early EXCEPT !.pc = IF enabled THEN "whenReady" ELSE "off"]
    /\ UNCHANGED <<targeted, cookieUrls, chromeVars, menuVars, layoutVars, outsideShell>>

\* the callback starts: `await this.getLastWindowOptions()`
EarlyWindowStarts ==
    /\ early.pc = "whenReady" /\ appReady
    /\ early' = [early EXCEPT !.pc = "options"]
    /\ UNCHANGED <<targeted, cookieUrls, chromeVars, menuVars, layoutVars, outsideShell>>

\* the callback goes on into `await this.createWindow({ ...options })`
EarlyWindowOptions ==
    /\ early.pc = "options"
    /\ early' = [early EXCEPT !.pc = "createWindow"]
    /\ UNCHANGED <<targeted, cookieUrls, chromeVars, menuVars, layoutVars, outsideShell>>

\* `this.initialWindow = await this.createWindow(...)`
EarlyWindowCreated ==
    /\ early.pc = "createWindow"
    /\ early' = [early EXCEPT !.pc = "done", !.created = @ + 1,
                              !.initialWindow = early.created + 1]
    /\ UNCHANGED <<targeted, cookieUrls, chromeVars, menuVars, layoutVars, outsideShell>>

\* (mutant) the early window is returned and the field is left as it is
ReuseOrCreateWindowKeeping(e, caller) ==
    IF e.initialWindow = 0
    THEN [e EXCEPT !.created = @ + 1,
                   !.handed = Append(@, [caller |-> caller, window |-> e.created + 1,
                                         reused |-> FALSE])]
    ELSE [e EXCEPT !.handed = Append(@, [caller |-> caller, window |-> e.initialWindow,
                                         reused |-> TRUE])]

\* reuseOrCreateWindow(asyncOptions): without an initial window a window is
\* created; otherwise the initial window is returned and the field cleared
ReuseOrCreateWindow(e, caller) ==
    IF e.initialWindow = 0
    THEN [e EXCEPT !.created = @ + 1,
                   !.handed = Append(@, [caller |-> caller, window |-> e.created + 1,
                                         reused |-> FALSE])]
    ELSE [e EXCEPT !.initialWindow = 0,
                   !.handed = Append(@, [caller |-> caller, window |-> e.initialWindow,
                                         reused |-> TRUE])]

Callers(e) == {e.handed[i].caller : i \in 1..Len(e.handed)}

\* the first-launch dispatch: handleMainCommand, openWindowWithWorkspace('')
\* and, after its await of getLastWindowOptions(), reuseOrCreateWindow
FirstLaunchOpens ==
    /\ Running
    /\ ~ContinuationPending
    /\ bootPc = "dispatched"
    /\ "first" \notin Callers(early)
    /\ early' = ReuseOrCreateWindow(early, "first")
    /\ UNCHANGED <<targeted, cookieUrls, chromeVars, menuVars, layoutVars, outsideShell>>

\* a second instance is launched: onSecondInstance, handleMainCommand and
\* the opener it chooses, which calls reuseOrCreateWindow before the port is
\* awaited
SecondInstanceOpens ==
    /\ Running
    /\ ~ContinuationPending
    /\ bootPc # "init"
    /\ Len(early.handed) < MaxDispatches
    /\ early' = ReuseOrCreateWindow(early, "second-instance")
    /\ UNCHANGED <<targeted, cookieUrls, chromeVars, menuVars, layoutVars, outsideShell>>

\* the boot sequence with the early window; events are taken when no
\* continuation is pending
NextEarly ==
    \/ \E enabled \in BOOLEAN : ShowInitialWindow(enabled)
    \/ EarlyWindowStarts
    \/ EarlyWindowOptions
    \/ EarlyWindowCreated
    \/ FirstLaunchOpens
    \/ SecondInstanceOpens
    \/ /\ ~ContinuationPending
       /\ \/ Start
          \/ \E port \in Ports : ChildMessage(port)
          \/ BackendSettled
          \/ ElectronReady
          \/ AttachToken
          \/ \E behaviour \in [1..NumContributions -> {"none", "resolved", "pending"}] :
                  TokenBound(behaviour)
          \/ \E i \in 1..NumContributions : HookSettles(i, TRUE)
          \/ ContributionsSettled

\* ----------------------------------------------- reply sender section
\* a request function is called for the webContents wc: the channel number
\* is taken, the request is sent to wc and the reply listeners are put on
\* ipcMain; the listeners are given the channel and the handler only
RequestTo(kind, wc) ==
    LET channelNr == Len(targeted.requests) IN
    /\ channelNr < MaxRequests
    /\ targeted' =
          [requests |-> Append(targeted.requests,
                               [kind |-> kind, target |-> wc, state |-> "pending",
                                result |-> "none", resolvedBy |-> 0]),
           listeners |-> targeted.listeners \cup ReplyChannels(kind, channelNr)]
    /\ UNCHANGED <<early, cookieUrls, chromeVars, menuVars, layoutVars, outsideShell>>

\* the reply listeners are `e => resolve(...)`: event.sender is not looked at
ReplyAccepted(request, sender) == TRUE

\* the renderer of window `sender` sends a message on the reply channel
\* `${prefix}${n}`
ReplyFrom(sender, prefix, n, arg) ==
    /\ n < Len(targeted.requests)
    /\ ChannelName(prefix, n) \in targeted.listeners
    /\ LET request == targeted.requests[n + 1] IN
        IF ReplyAccepted(request, sender)
        THEN targeted' =
               [requests |-> [targeted.requests EXCEPT
                                 ![n + 1] = [Settle(request, ReplyValue(prefix, arg))
                                                EXCEPT !.resolvedBy = sender]],
                listeners |-> ListenersAfterReply(targeted.listeners, request.kind,
                                                  prefix, n)]
        ELSE UNCHANGED targeted
    /\ UNCHANGED <<early, cookieUrls, chromeVars, menuVars, layoutVars, outsideShell>>

NextTargeted ==
    \/ \E kind \in {"openUrl", "aboutToClose", "requestClose", "requestSecondaryClose"},
          wc \in 1..MaxWindows :
            RequestTo(kind, wc)
    \/ \E sender \in 1..MaxWindows,
          prefix \in {"openUrl", "aboutToClose", "confirm-", "cancel-"},
          n \in 0..(MaxRequests - 1), arg \in BOOLEAN :
            ReplyFrom(sender, prefix, n, arg)

\* ------------------------------------------------- token cookie section
\* `http://localhost:${port}`, as <<host, port>>
LocalEndpoint(port) == <<"localhost", port>>

\* the endpoints a window may name in an attach-security-token request
Endpoints == {LocalEndpoint(port) : port \in Ports} \cup {<<"example.org", 80>>}

\* every URL that carries the token cookie: the one start() bound it to and
\* those set at a window's request
TokenCookieUrls ==
    cookieUrls \cup (IF tokenUrl # 0 THEN {LocalEndpoint(tokenUrl)} ELSE {})

\* the handler of CHANNEL_ATTACH_SECURITY_TOKEN, registered by the onStart
\* hook of TheiaMainApi: session.defaultSession.cookies.set({url: endpoint, ...})
AttachSecurityToken(endpoint) ==
    /\ Running
    /\ bootPc \in {"awaitContributions", "dispatched"}
    /\ cookieUrls' = cookieUrls \cup {endpoint}
    /\ UNCHANGED <<early, targeted, chromeVars, menuVars, layoutVars, outsideShell>>

\* the boot sequence and the windows' attach requests
NextToken ==
    \/ Start
    \/ \E port \in Ports : ChildMessage(port)
    \/ BackendSettled
    \/ ElectronReady
    \/ AttachToken
    \/ \E behaviour \in [1..NumContributions -> {"none", "resolved", "pending"}] :
            TokenBound(behaviour)
    \/ \E i \in 1..NumContributions : HookSettles(i, TRUE)
    \/ ContributionsSettled
    \/ \E endpoint \in Endpoints : AttachSecurityToken(endpoint)

\* ------------------------------------------------- command dispatch section
\* directories; a path is <<dir, name>>, a relative path has dir 0
Dirs == {1, 2}
Names == 1..MaxNames
AbsolutePaths == Dirs \X Names
RelativePaths == {0} \X Names

\* fs.realpath rejects: the path has no real path
Missing == <<>>

\* the workspace path ''
EmptyPath == <<0, 0>>

InitDispatch ==
    /\ cwd \in Dirs
    /\ realpath = [p \in AbsolutePaths |-> Missing]
    /\ lastDispatch = <<>>

\* path.resolve(cwd, file): an absolute file is kept, a relative one is
\* taken from cwd
PathResolve(dir, file) == IF file[1] = 0 THEN <<dir, file[2]>> ELSE file

\* the result of handleMainCommand(options) on the filesystem fs: the opener
\* called and its workspace argument, whether console.error was called,
\* whether the call rejected
Dispatch(opener, workspace, logged, threw) ==
    [opener |-> opener, workspace |-> workspace, logged |-> logged, threw |-> threw]

\* (mutant) fs.realpath is awaited outside a try block
HandleMainCommandUncaught(options, fs) ==
    IF options.secondInstance = FALSE
    THEN Dispatch("openWindowWithWorkspace", EmptyPath, FALSE, FALSE)
    ELSE IF options.file = Undefined
    THEN Dispatch("openDefaultWindow", Undefined, FALSE, FALSE)
    ELSE LET workspacePath == fs[PathResolve(options.cwd, options.file)]
         IN  IF workspacePath = Missing
             THEN Dispatch("none", Undefined, FALSE, TRUE)
             ELSE Dispatch("openWindowWithWorkspace", workspacePath, FALSE, FALSE)

\* (mutant) the first launch is dispatched like a second instance
HandleMainCommandDispatchingFirst(options, fs) ==
    IF options.file = Undefined
    THEN Dispatch("openDefaultWindow", Undefined, FALSE, FALSE)
    ELSE LET workspacePath == fs[PathResolve(options.cwd, options.file)]
         IN  IF workspacePath = Missing
             THEN Dispatch("openDefaultWindow", Undefined, TRUE, FALSE)
             ELSE Dispatch("openWindowWithWorkspace", workspacePath, FALSE, FALSE)

\* handleMainCommand(options)
HandleMainCommandOutcome(options, fs) ==
    IF options.secondInstance = FALSE
    THEN Dispatch("openWindowWithWorkspace", EmptyPath, FALSE, FALSE)
    ELSE IF options.file = Undefined
    THEN Dispatch("openDefaultWindow", Undefined, FALSE, FALSE)
    ELSE LET workspacePath == fs[PathResolve(options.cwd, options.file)]
         IN  IF workspacePath = Missing
             THEN Dispatch("openDefaultWindow", Undefined, TRUE, FALSE)
             ELSE Dispatch("openWindowWithWorkspace", workspacePath, FALSE, FALSE)

\* the positional argument [file] of a command line
Files == {Undefined} \cup RelativePaths \cup AbsolutePaths

\* a handleMainCommand call with its result
DispatchCall(options) ==
    /\ lastDispatch' = <<[options |-> options,
                          outcome |-> HandleMainCommandOutcome(options, realpath)]>>
    /\ UNCHANGED <<cwd, realpath, outsideDispatch>>

\* start(): handleMainCommand({file: args.file, cwd: process.cwd(),
\* secondInstance: false})
FirstLaunchDispatch(file) ==
    DispatchCall([file |-> file, cwd |-> cwd, secondInstance |-> FALSE])

\* onSecondInstance: handleMainCommand({file: args.file, cwd: process.cwd(),
\* secondInstance: true})
SecondInstanceDispatch(file) ==
    DispatchCall([file |-> file, cwd |-> cwd, secondInstance |-> TRUE])

\* the paths that are their own real path
RealFiles(fs) == {p \in DOMAIN fs : fs[p] = p}

\* filesystem: path p is removed, becomes a file or directory, or becomes a
\* link to a real path; a path that links point to stays
FileChanges(p, target) ==
    /\ target \in {Missing, p} \cup (RealFiles(realpath) \ {p})
    /\ target # realpath[p]
    /\ target # p => \A q \in DOMAIN realpath : q # p => realpath[q] # p
    /\ realpath' = [realpath EXCEPT ![p] = target]
    /\ lastDispatch' = <<>>
    /\ UNCHANGED <<cwd, outsideDispatch>>

NextDispatch ==
    \/ \E file \in Files : FirstLaunchDispatch(file)
    \/ \E file \in Files : SecondInstanceDispatch(file)
    \/ \E p \in AbsolutePaths, target \in {Missing} \cup AbsolutePaths : FileChanges(p, target)

\* ------------------------------------------- debounced persistence section
\* setTimeout(() => this.saveWindowState(electronWindow), 1000)
SaveDelay == 1000
\* granularity of time: events happen at multiples of it
TimeStep == 500

InitPersist ==
    /\ saveWin = [w \in 1..MaxSaveWindows |->
                    [state |-> "open", size |-> 0, delayedSaveTimeout |-> 0,
                     timers |-> {}, handles |-> 0,
                     lastEventAt |-> 0, burst |-> 0]]
    /\ clock = 0
    /\ stored = <<>>
    /\ lastSave = <<>>

\* clearTimeout(handle)
ClearTimeout(timers, handle) == {t \in timers : t[1] # handle}

\* (mutant) saveWindowStateDelayed without the clearTimeout
SaveWindowStateDelayedKeeping(win, t) ==
    [win EXCEPT !.handles = @ + 1,
                !.delayedSaveTimeout = win.handles + 1,
                !.timers = @ \cup {<<win.handles + 1, t + SaveDelay>>}]

\* saveWindowStateDelayed() at time t: the pending timer is cleared and a
\* new one is set
SaveWindowStateDelayed(win, t) ==
    [win EXCEPT !.handles = @ + 1,
                !.delayedSaveTimeout = win.handles + 1,
                !.timers = (IF win.delayedSaveTimeout # 0
                            THEN ClearTimeout(@, win.delayedSaveTimeout) ELSE @)
                           \cup {<<win.handles + 1, t + SaveDelay>>}]

\* (mutant) saveWindowState without the try block
SaveWindowStateUnguarded(target, size, store, writeFails) ==
    IF target = "missing" THEN [store |-> store, result |-> "returned", logged |-> FALSE]
    ELSE IF target = "destroyed" \/ writeFails
    THEN [store |-> store, result |-> "threw", logged |-> FALSE]
    ELSE [store |-> <<size>>, result |-> "saved", logged |-> FALSE]

\* saveWindowState(electronWindow): nothing without a window; getBounds()
\* of a destroyed window throws and electronStore.set may throw, both inside
\* the try block, whose catch logs
SaveWindowStateOutcome(target, size, store, writeFails) ==
    IF target = "missing" THEN [store |-> store, result |-> "returned", logged |-> FALSE]
    ELSE IF target = "destroyed" \/ writeFails
    THEN [store |-> store, result |-> "caught", logged |-> TRUE]
    ELSE [store |-> <<size>>, result |-> "saved", logged |-> FALSE]

\* the electronWindow object a handler of window w holds
TargetOf(win) == IF win.state = "open" THEN "open" ELSE "destroyed"

\* the record kept of a saveWindowState call
SaveCall(w, kind, target, writeFails, outcome) ==
    <<[win |-> w, kind |-> kind, at |-> clock, target |-> target,
       writeFails |-> writeFails, result |-> outcome.result, logged |-> outcome.logged,
       before |-> stored, after |-> outcome.store,
       burst |-> IF w = 0 THEN 0 ELSE saveWin[w].burst,
       lastEventAt |-> IF w = 0 THEN 0 ELSE saveWin[w].lastEventAt]>>

\* timers of all windows that are due
DueTimers(w) == {t \in saveWin[w].timers : t[2] <= clock}

\* window w emits 'resize' or 'move'
ResizeOrMove(w) ==
    /\ saveWin[w].state = "open"
    /\ saveWin[w].handles < MaxGeomEvents
    /\ saveWin' = [saveWin EXCEPT ![w] =
                      [SaveWindowStateDelayed(saveWin[w], clock)
                          EXCEPT !.size = saveWin[w].handles + 1,
                                 !.lastEventAt = clock,
                                 !.burst = @ + 1]]
    /\ lastSave' = <<>>
    /\ UNCHANGED <<clock, stored, outsidePersist>>

\* window w emits 'close': saveWindowState runs at once; the close may
\* still be prevented
OnClose(w, writeFails) ==
    LET outcome == SaveWindowStateOutcome(TargetOf(saveWin[w]), saveWin[w].size,
                                          stored, writeFails)
    IN  /\ saveWin[w].state = "open"
        /\ stored' = outcome.store
        /\ lastSave' = SaveCall(w, "close", TargetOf(saveWin[w]), writeFails, outcome)
        /\ UNCHANGED <<saveWin, clock, outsidePersist>>

\* window w emits 'closed': it is destroyed and emits no further event;
\* windowStateListeners.dispose() removes the listeners, the timer stays
OnClosed(w) ==
    /\ saveWin[w].state = "open"
    /\ saveWin' = [saveWin EXCEPT ![w].state = "closed"]
    /\ lastSave' = <<>>
    /\ UNCHANGED <<clock, stored, outsidePersist>>

\* a delayed-save timer of window w fires
DelayedSave(w, writeFails) ==
    /\ DueTimers(w) # {}
    /\ \E t \in DueTimers(w) :
          LET outcome == SaveWindowStateOutcome(TargetOf(saveWin[w]), saveWin[w].size,
                                                stored, writeFails)
          IN  /\ \A u \in DueTimers(w) : t[1] <= u[1]
              /\ stored' = outcome.store
              /\ lastSave' = SaveCall(w, "delayed", TargetOf(saveWin[w]), writeFails, outcome)
              /\ saveWin' = [saveWin EXCEPT ![w].timers = @ \ {t}, ![w].burst = 0]
    /\ UNCHANGED <<clock, outsidePersist>>

\* saveWindowState is called without a window
SaveMissingWindow ==
    LET outcome == SaveWindowStateOutcome("missing", 0, stored, FALSE)
    IN  /\ lastSave = <<>>
        /\ stored' = outcome.store
        /\ lastSave' = SaveCall(0, "direct", "missing", FALSE, outcome)
        /\ UNCHANGED <<saveWin, clock, outsidePersist>>

\* time passes; timers that are due fire first
ClockTick ==
    /\ clock < MaxClock * TimeStep
    /\ \A w \in DOMAIN saveWin : DueTimers(w) = {}
    /\ clock' = clock + TimeStep
    /\ lastSave' = <<>>
    /\ UNCHANGED <<saveWin, stored, outsidePersist>>

NextPersist ==
    \/ \E w \in 1..MaxSaveWindows : ResizeOrMove(w)
    \/ \E w \in 1..MaxSaveWindows, writeFails \in BOOLEAN : OnClose(w, writeFails)
    \/ \E w \in 1..MaxSaveWindows : OnClosed(w)
    \/ \E w \in 1..MaxSaveWindows, writeFails \in BOOLEAN : DelayedSave(w, writeFails)
    \/ SaveMissingWindow
    \/ ClockTick

\* the sections from the command dispatch on
InitMore ==
    InitDispatch /\ InitPersist /\ InitChannel /\ InitChrome /\ InitMenu /\ InitLayout
        /\ InitEarly

\* ------------------------------------------------------ control plane section
\* windowName undefined or '': the request is about the sender's window
NoName == 0

\* the main window has id 1 and no name; secondary window n has id n + 1 and
\* the name n in webContents.mainFrame.name
MainWindow == 1
SecondaryId(n) == n + 1
WindowNames == 1..(MaxSecondary + 1)

InitControl ==
    /\ ctlWindows = (MainWindow :> [name |-> NoName, menuBarVisible |-> TRUE,
                                    minimized |-> FALSE])
    /\ focusedWindow = MainWindow
    /\ openPopups = <<>>
    /\ popups = <<>>
    /\ lastControl = <<>>

\* BrowserWindow.getAllWindows().find(win => win.webContents.mainFrame.name
\* === windowName): the id of the window found, 0 for undefined
FindWindow(ws, windowName) ==
    IF \E id \in DOMAIN ws : ws[id].name = windowName
    THEN CHOOSE id \in DOMAIN ws :
            /\ ws[id].name = windowName
            /\ \A other \in DOMAIN ws : ws[other].name = windowName => id <= other
    ELSE 0

\* windowName ? find(...) : BrowserWindow.fromWebContents(event.sender)
ResolveWindow(ws, sender, windowName) ==
    IF windowName # NoName THEN FindWindow(ws, windowName) ELSE sender

\* popup.popup({window}): without a window the menu pops up in the focused
\* window, and in some open window when none is focused
PopupTargets(ws, focused, electronWindow) ==
    IF electronWindow # 0 THEN {electronWindow}
    ELSE IF focused # 0 THEN {focused}
    ELSE DOMAIN ws

\* the record kept of a control-plane request
ControlRequest(channel, windowName, found, warned, delivered, registered, shownIn) ==
    <<[channel |-> channel, windowName |-> windowName, found |-> found,
       warned |-> warned, delivered |-> delivered, registered |-> registered,
       shownIn |-> shownIn]>>

\* a renderer opens the secondary window n (setWindowOpenHandler allows it)
OpenSecondary(n) ==
    /\ SecondaryId(n) \notin DOMAIN ctlWindows
    /\ ctlWindows' = ctlWindows @@ (SecondaryId(n) :>
                        [name |-> n, menuBarVisible |-> TRUE, minimized |-> FALSE])
    /\ focusedWindow' = SecondaryId(n)
    /\ lastControl' = <<>>
    /\ UNCHANGED <<openPopups, popups, outsideControl>>

\* a secondary window is closed
CloseSecondary(n) ==
    /\ SecondaryId(n) \in DOMAIN ctlWindows
    /\ \A menu \in DOMAIN popups :
          popups[menu].displayed =>
              SecondaryId(n) \notin {popups[menu].window, popups[menu].sender}
    /\ ctlWindows' = [id \in DOMAIN ctlWindows \ {SecondaryId(n)} |-> ctlWindows[id]]
    /\ focusedWindow' = IF focusedWindow = SecondaryId(n) THEN 0 ELSE focusedWindow
    /\ lastControl' = <<>>
    /\ UNCHANGED <<openPopups, popups, outsideControl>>

\* the user minimizes a window
MinimizeWindow(id) ==
    /\ id \in DOMAIN ctlWindows
    /\ ~ctlWindows[id].minimized
    /\ ctlWindows' = [ctlWindows EXCEPT ![id].minimized = TRUE]
    /\ focusedWindow' = IF focusedWindow = id THEN 0 ELSE focusedWindow
    /\ lastControl' = <<>>
    /\ UNCHANGED <<openPopups, popups, outsideControl>>

\* ipcMain.on(CHANNEL_SET_MENU_BAR_VISIBLE, (event, visible, windowName) => ...)
SetMenuBarVisible(sender, visible, windowName) ==
    LET electronWindow == ResolveWindow(ctlWindows, sender, windowName)
    IN  /\ sender \in DOMAIN ctlWindows
        /\ ctlWindows' = IF electronWindow # 0
                         THEN [ctlWindows EXCEPT ![electronWindow].menuBarVisible = visible]
                         ELSE ctlWindows
        /\ lastControl' = ControlRequest("setMenuBarVisible", windowName, electronWindow,
                                         electronWindow = 0, electronWindow # 0, FALSE, 0)
        /\ UNCHANGED <<focusedWindow, openPopups, popups, outsideControl>>

\* ipcMain.on(CHANNEL_FOCUS_WINDOW, (event, windowName) => ...)
FocusWindow(sender, windowName) ==
    LET electronWindow == ResolveWindow(ctlWindows, sender, windowName)
    IN  /\ sender \in DOMAIN ctlWindows
        /\ ctlWindows' = IF electronWindow # 0
                         THEN [ctlWindows EXCEPT ![electronWindow].minimized = FALSE]
                         ELSE ctlWindows
        /\ focusedWindow' = IF electronWindow # 0 THEN electronWindow ELSE focusedWindow
        /\ lastControl' = ControlRequest("focusWindow", windowName, electronWindow,
                                         electronWindow = 0, electronWindow # 0, FALSE, 0)
        /\ UNCHANGED <<openPopups, popups, outsideControl>>

\* the callback of popup.popup of the Menu object `menu`:
\* this.openPopups.delete(menuId); event.sender.send(CHANNEL_ON_CLOSE_POPUP, menuId)
PopupCallback(open, menu, menuId) ==
    [id \in DOMAIN open \ {menuId} |-> open[id]]

\* ipcMain.handle(CHANNEL_OPEN_POPUP, (event, menuId, menu, x, y, windowName) => ...);
\* every renderer numbers its own popups
OpenPopup(sender, menuId, windowName) ==
    LET electronWindow == ResolveWindow(ctlWindows, sender, windowName)
        popup == Len(popups) + 1
    IN  /\ sender \in DOMAIN ctlWindows
        /\ Len(popups) < MaxPopups
        /\ \A menu \in DOMAIN popups :
              (popups[menu].displayed /\ popups[menu].sender = sender) =>
                  popups[menu].menuId # menuId
        /\ \E target \in PopupTargets(ctlWindows, focusedWindow, electronWindow) :
              /\ openPopups' = [id \in DOMAIN openPopups \cup {menuId} |->
                                   IF id = menuId THEN popup ELSE openPopups[id]]
              /\ popups' = Append(popups, [menuId |-> menuId, sender |-> sender,
                                           window |-> target, displayed |-> TRUE,
                                           notices |-> 0])
              /\ lastControl' = ControlRequest("openPopup", windowName, electronWindow,
                                               FALSE, TRUE, TRUE, target)
        /\ UNCHANGED <<ctlWindows, focusedWindow, outsideControl>>

\* the popup `menu` is dismissed by the user: its callback runs
PopupClosed(menu) ==
    /\ menu \in DOMAIN popups
    /\ popups[menu].displayed
    /\ openPopups' = PopupCallback(openPopups, menu, popups[menu].menuId)
    /\ popups' = [popups EXCEPT ![menu].displayed = FALSE, ![menu].notices = @ + 1]
    /\ lastControl' = <<>>
    /\ UNCHANGED <<ctlWindows, focusedWindow, outsideControl>>

\* ipcMain.handle(CHANNEL_CLOSE_POPUP, (event, handle) => ...): closePopup()
\* of the Menu object held under `handle` dismisses it, and its callback runs
ClosePopup(sender, handle) ==
    LET menu == IF handle \in DOMAIN openPopups THEN openPopups[handle] ELSE 0
    IN  /\ sender \in DOMAIN ctlWindows
        /\ IF menu # 0 /\ popups[menu].displayed
           THEN /\ openPopups' = PopupCallback(openPopups, menu, popups[menu].menuId)
                /\ popups' = [popups EXCEPT ![menu].displayed = FALSE,
                                            ![menu].notices = @ + 1]
           ELSE UNCHANGED <<openPopups, popups>>
        /\ lastControl' = ControlRequest("closePopup", NoName, menu, FALSE,
                                         menu # 0, FALSE, 0)
        /\ UNCHANGED <<ctlWindows, focusedWindow, outsideControl>>

NextControl ==
    \/ \E n \in 1..MaxSecondary : OpenSecondary(n)
    \/ \E n \in 1..MaxSecondary : CloseSecondary(n)
    \/ \E id \in 1..SecondaryId(MaxSecondary) : MinimizeWindow(id)
    \/ \E sender \in 1..SecondaryId(MaxSecondary), visible \in BOOLEAN,
          windowName \in {NoName} \cup WindowNames :
            SetMenuBarVisible(sender, visible, windowName)
    \/ \E sender \in 1..SecondaryId(MaxSecondary), windowName \in {NoName} \cup WindowNames :
            FocusWindow(sender, windowName)
    \/ \E sender \in 1..SecondaryId(MaxSecondary), menuId \in 1..MaxMenus,
          windowName \in {NoName} \cup WindowNames :
            OpenPopup(sender, menuId, windowName)
    \/ \E menu \in 1..MaxPopups : PopupClosed(menu)
    \/ \E sender \in 1..SecondaryId(MaxSecondary), handle \in 1..MaxMenus :
            ClosePopup(sender, handle)

\* ------------------------------------------------------------ restart section
InitRestart ==
    /\ restarting = FALSE
    /\ restartReqs = <<>>
    /\ allClosedDue = FALSE
    /\ quitRequested = FALSE
    /\ idleSuppressed = FALSE
    /\ quitDuringRestart = FALSE

\* a restart() call that has neither been vetoed nor finished its relaunch
InProgress(req) == req.state \in {"asking", "confirmed", "relaunching"}

\* a restart() call whose close was confirmed and whose relaunch is not finished
ConfirmedInProgress(req) == req.confirmed /\ req.state \in {"confirmed", "relaunching"}

\* restart(webContents) up to `await wrapper.close(StopReason.Restart)`:
\* CHANNEL_RESTART from any webContents, registered as a window or not
Restart(id) ==
    /\ ~quitRequested
    /\ Len(restartReqs) < MaxRestarts
    /\ restarting' = TRUE
    /\ restartReqs' = IF id \in windows
                      THEN Append(restartReqs,
                                  [win |-> id, state |-> "asking", confirmed |-> FALSE,
                                   relaunches |-> 0])
                      ELSE restartReqs
    /\ UNCHANGED <<allClosedDue, quitRequested, idleSuppressed, quitDuringRestart,
                   winVars, urlVars, outsideWin>>

\* restart() after `await wrapper.close(StopReason.Restart)`
RestartAfterClose(req, closed) ==
    IF closed THEN [req EXCEPT !.state = "confirmed", !.confirmed = TRUE]
    ELSE [req EXCEPT !.state = "vetoed"]

RestartingAfterClose(flag, closed) == flag

\* wrapper.close(StopReason.Restart) resolves: true when the window agreed
\* and is closing, false when it vetoed
CloseAnswered(i, closed) ==
    /\ ~quitRequested
    /\ i \in DOMAIN restartReqs
    /\ restartReqs[i].state = "asking"
    /\ restartReqs[i].win \in windows
    /\ restartReqs' = [restartReqs EXCEPT ![i] = RestartAfterClose(@, closed)]
    /\ restarting' = RestartingAfterClose(restarting, closed)
    /\ UNCHANGED <<allClosedDue, quitRequested, idleSuppressed, quitDuringRestart,
                   winVars, urlVars, outsideWin>>

\* the listener of restart() after `await this.handleMainCommand(...)`: the
\* dispatch has opened a window; then `this.restarting = false`
RelaunchCompletes(i) ==
    /\ ~quitRequested
    /\ i \in DOMAIN restartReqs
    /\ restartReqs[i].state = "relaunching"
    /\ LET id == created + 1 IN
        /\ created' = id
        /\ activeWindowStack' = StackAfterCreate(activeWindowStack, id)
        /\ windows' = windows \cup {id}
    /\ restartReqs' = [restartReqs EXCEPT ![i].state = "done"]
    /\ restarting' = FALSE
    /\ UNCHANGED <<allClosedDue, quitRequested, idleSuppressed, quitDuringRestart,
                   focusHistory, urlVars, outsideWin>>

\* onWindowAllClosed: `if (!this.restarting) this.requestStop()`
OnWindowAllClosed ==
    /\ ~quitRequested
    /\ allClosedDue
    /\ windows = {}
    /\ allClosedDue' = FALSE
    /\ quitRequested' = ~restarting
    /\ idleSuppressed' =
          (idleSuppressed \/
             (restarting /\ \A i \in DOMAIN restartReqs : ~InProgress(restartReqs[i])))
    /\ quitDuringRestart' =
          (quitDuringRestart \/
             (~restarting /\ \E i \in DOMAIN restartReqs :
                                 ConfirmedInProgress(restartReqs[i])))
    /\ UNCHANGED <<restarting, restartReqs, winVars, urlVars, outsideWin>>

NextRestart ==
    \/ CreateWindow
    \/ \E id \in 1..(MaxWindows + MaxRestarts) : OnDidClose(id)
    \/ \E id \in 0..(MaxWindows + MaxRestarts) : Restart(id)
    \/ \E i \in 1..MaxRestarts, closed \in BOOLEAN : CloseAnswered(i, closed)
    \/ \E i \in 1..MaxRestarts : RelaunchCompletes(i)
    \/ OnWindowAllClosed

\* ------------------------------------------------ claims: window registry
\* the asked ids that were in the starting order were asked in that order
AskedInStartOrder(asked, start) ==
    \A i, j \in 1..Len(asked) :
        (i < j /\ asked[i] \in Range(start) /\ asked[j] \in Range(start)) =>
            IndexOf(start, asked[i]) < IndexOf(start, asked[j])

\* the ids ahead of x in the starting order (all of them when x came later)
AheadOf(start, x) ==
    IF x \in Range(start)
    THEN Range(SubSeq(start, 1, IndexOf(start, x) - 1))
    ELSE Range(start)

\* C1: after any sequence of create, focus and close events (a focus event
\* for an already closed window included) activeWindowStack holds exactly the
\* ids of the registered windows, without duplicates, and the most recently
\* focused open window is at index 0.
C1_StackMatchesRegistry ==
    /\ Range(activeWindowStack) = windows
    /\ NoDuplicates(activeWindowStack)
    /\ LET openFocused == SelectSeq(focusHistory, LAMBDA id : id \in windows)
       IN  openFocused # <<>> =>
               /\ activeWindowStack # <<>>
               /\ activeWindowStack[1] = openFocused[1]

\* C2: openUrl asks the windows in activation-stack order, one at a time, and
\* stops at the first that accepts: when a window accepts, no window was
\* asked twice, the accepting window was the last one asked, the windows
\* were asked in the order the stack had when the call started, and no
\* window ahead of the accepting one that is still open was left out.
C2_FirstAcceptorWins ==
    [][(urlState = "awaiting" /\ urlState' = "done" /\ urlAccepted' # 0) =>
            /\ NoDuplicates(urlAsked')
            /\ urlAsked'[Len(urlAsked')] = urlAccepted'
            /\ AskedInStartOrder(urlAsked', urlStart)
            /\ (AheadOf(urlStart, urlAccepted') \cap windows) \subseteq Range(urlAsked')
       ]_vars

\* ------------------------------------------------------ claims: geometry
SameBounds(a, b) ==
    a.x = b.x /\ a.y = b.y /\ a.width = b.width /\ a.height = b.height

\* o is two thirds of display d in each dimension (to the nearest integer)
\* and centered on it, not maximized and not fullscreen
CenteredTwoThirds(o, d) ==
    /\ 3 * o.width - 2 * d.width \in {-1, 0, 1}
    /\ 3 * o.height - 2 * d.height \in {-1, 0, 1}
    /\ 2 * (o.x - d.x) - (d.width - o.width) \in {0, 1}
    /\ 2 * (o.y - d.y) - (d.height - o.height) \in {0, 1}
    /\ ~o.isMaximized
    /\ ~o.isFullScreen

\* C11: getLastWindowOptions returns the persisted geometry exactly when one
\* is persisted and its screen layout equals the fingerprint of the attached
\* displays; otherwise it returns the centered two-thirds defaults of the
\* display nearest the cursor.
C11_LastWindowOptions ==
    lastOptions # <<>> =>
        LET c == lastOptions[1]
            reuse == /\ c.previous # <<>>
                     /\ c.previous[1].screenLayout = GetCurrentScreenLayout(c.displays)
        IN  IF reuse
            THEN /\ SameBounds(c.result, c.previous[1])
                 /\ c.result.isMaximized = c.previous[1].isMaximized
                 /\ c.result.isFullScreen = c.previous[1].isFullScreen
            ELSE /\ CenteredTwoThirds(c.result, c.displays[c.cursor])
                 /\ c.result.screenLayout = Undefined

\* witness of C11: a geometry is persisted for another display layout and
\* differs from the defaults that are returned
C11_Witness ==
    /\ lastOptions # <<>>
    /\ lastOptions[1].previous # <<>>
    /\ lastOptions[1].previous[1].screenLayout # GetCurrentScreenLayout(lastOptions[1].displays)
    /\ ~SameBounds(lastOptions[1].result, lastOptions[1].previous[1])

\* the window openWindowWithWorkspace just created from the persisted state
\* of a window that is closed, on the display layout it was saved on
RoundTrip ==
    /\ lastOptions # <<>>
    /\ lastOverlap # <<>>
    /\ lastOptions[1].previous # <<>>
    /\ lastOptions[1].previous[1].screenLayout = GetCurrentScreenLayout(lastOptions[1].displays)
    /\ \A i \in 1..Len(lastOverlap[1].existing) : lastOverlap[1].existing[i].id # savedBy

NewWindow == browserWindows[Len(browserWindows)]

\* C12 as stated: after a round trip the new window has the saved x, y,
\* width, height and frame.
C12_RoundTripAnyWindows ==
    RoundTrip =>
        /\ SameBounds(NewWindow, lastOptions[1].previous[1])
        /\ NewWindow.frame = lastOptions[1].previous[1].frame

\* no open window has the x or the y of geometry o
SharesNoAxis(existing, o) ==
    \A i \in 1..Len(existing) : existing[i].x # o.x /\ existing[i].y # o.y

\* C12 amended: after a round trip the new window has the saved x, y, width,
\* height and frame, provided no open window has the saved x or the saved y.
C12_RoundTrip ==
    (RoundTrip /\ SharesNoAxis(lastOverlap[1].existing, lastOptions[1].previous[1])) =>
        /\ SameBounds(NewWindow, lastOptions[1].previous[1])
        /\ NewWindow.frame = lastOptions[1].previous[1].frame

\* witness of C12: a window saved away from the default position with the
\* custom frame is closed and re-created unchanged beside another open window
C12_Witness ==
    /\ RoundTrip
    /\ Len(lastOverlap[1].existing) > 0
    /\ SharesNoAxis(lastOverlap[1].existing, lastOptions[1].previous[1])
    /\ ~lastOptions[1].previous[1].frame
    /\ lastOptions[1].previous[1].x # DefaultPosition.x
    /\ SameBounds(NewWindow, lastOptions[1].previous[1])

\* the constant c of C13
SmallConstant == 2

\* C13: avoidOverlap makes at most N + c passes for N existing windows, and a
\* candidate that was maximized or fullscreen and is moved is first replaced
\* with the centered defaults.
C13_OverlapLoopBound ==
    lastOverlap # <<>> =>
        LET r == lastOverlap[1]
        IN  /\ r.iterations <= Len(r.existing) + SmallConstant
            /\ (r.iterations > 0 /\ (r.candidate.isMaximized \/ r.candidate.isFullScreen)) =>
                  /\ CenteredTwoThirds([r.options EXCEPT !.x = @ - Offset * r.iterations,
                                                         !.y = @ - Offset * r.iterations],
                                       displays[1])

\* C14: a candidate that shares no x and no y with an existing window comes
\* back unchanged, maximized or not, and avoidOverlap applied to its own
\* result changes nothing.
C14_OverlapIdempotent ==
    lastOverlap # <<>> =>
        LET r == lastOverlap[1]
        IN  /\ SharesNoAxis(r.existing, r.candidate) => r.options = r.candidate
            /\ r.again = r.options

\* witness of C14: a maximized candidate passes unchanged beside two windows,
\* and a moved candidate is stable under a second application
C14_Witness ==
    /\ lastOverlap # <<>>
    /\ Len(lastOverlap[1].existing) = 2
    /\ lastOverlap[1].candidate.isMaximized
    /\ lastOverlap[1].options = lastOverlap[1].candidate
    /\ lastOverlap[1].again = lastOverlap[1].options

\* the geometry o moved by k steps of (+Offset, +Offset)
MovedBy(o, k) == [o EXCEPT !.x = @ + Offset * k, !.y = @ + Offset * k]

\* C40: with at least one window the geometry avoidOverlap returns shares no
\* x and no y with an existing window; with no window the candidate comes
\* back unchanged; and the result is the candidate or the fresh centered
\* default moved by a whole number of (+30, +30) steps.
C40_OverlapPostcondition ==
    lastOverlap # <<>> =>
        LET r == lastOverlap[1]
            fresh == GetDefaultTheiaWindowOptions(useNativeWindowFrame, displays[1])
        IN  /\ Len(r.existing) > 0 => SharesNoAxis(r.existing, r.options)
            /\ Len(r.existing) = 0 => r.options = r.candidate
            /\ \E k \in 0..(2 * Len(r.existing) + 1) :
                  r.options \in {MovedBy(r.candidate, k), MovedBy(fresh, k)}

\* witness of C40: a maximized candidate that coincided with one of two
\* windows was replaced by the defaults and moved more than once
C40_Witness ==
    /\ lastOverlap # <<>>
    /\ Len(lastOverlap[1].existing) = 2
    /\ lastOverlap[1].candidate.isMaximized
    /\ lastOverlap[1].iterations > 1
    /\ ~lastOverlap[1].options.isMaximized

\* -------------------------------------------------------- claims: splash
\* C15: a splash that is shown is eventually closed with the target window
\* shown; with minimum duration 0 and 'ready' reported at once this happens
\* at once, and when 'ready' is never reported it happens when the maximum
\* duration elapses.
C15_SplashEventuallyCloses ==
    /\ (splash.window = "open") ~> (splash.window = "closed" /\ splash.mainVisible)
    /\ [](splash.window = "closed" =>
            /\ (splash.minDuration = 0 /\ splash.readyAt = 0) => splash.closedAt = 0
            /\ splash.readyCount = 0 => splash.closedAt = splash.maxDuration)

\* witness of C15: 'ready' at once with minimum 0 closed the splash before
\* the maximum duration
C15_Witness ==
    /\ splash.window = "closed"
    /\ splash.mainVisible
    /\ splash.minDuration = 0
    /\ splash.readyAt = 0
    /\ splash.maxDuration = MaxDuration
    /\ splash.closedAt = 0

\* C16: the splash is never closed before its minimum duration has elapsed.
C16_NotClosedBeforeMinimum ==
    splash.window = "closed" => splash.closedAt >= splash.minDuration

\* C17: the transition is performed exactly once, it leaves no timer pending,
\* and no later event performs it again or closes the closed splash.
C17_SingleTransition ==
    /\ splash.transitions <= 1
    /\ splash.lateCloses = 0
    /\ splash.window = "closed" =>
          /\ splash.transitions = 1
          /\ splash.minTime # "pending"
          /\ splash.maxTime # "pending"

\* ------------------------------------------------- claims: control plane
\* C18: a control-plane request (set menu-bar visibility, focus window, open
\* popup) that names a secondary window which does not exist delivers no
\* command to any window: nothing is focused, no menu bar changes, no popup
\* is shown or registered; only a diagnostic is logged.
C18_UnknownWindowOnlyLogged ==
    \A i \in DOMAIN lastControl :
        (lastControl[i].windowName # NoName /\ lastControl[i].found = 0) =>
            /\ lastControl[i].warned
            /\ ~lastControl[i].delivered
            /\ ~lastControl[i].registered
            /\ lastControl[i].shownIn = 0

\* ------------------------------------- claims: shutdown and dispatch
\* C19: on 'will-quit' the onStop hooks are invoked in registration order,
\* each at most once; if a hook throws, the exception propagates out of the
\* handler and the hooks registered after it are not invoked.
C19_StopHooksInOrder ==
    willQuit.state # "none" =>
        LET hooks == willQuit.hooks
            invoked == willQuit.invoked
        IN  /\ \A k \in 1..(Len(invoked) - 1) : invoked[k] < invoked[k + 1]
            /\ \A i \in DOMAIN hooks :
                   i \in Range(invoked) <=>
                       /\ hooks[i] # "none"
                       /\ \A j \in DOMAIN hooks : j < i => hooks[j] # "throws"
            /\ willQuit.state = "threw" <=> \E i \in DOMAIN hooks : hooks[i] = "throws"
            /\ willQuit.state = "threw" => hooks[invoked[Len(invoked)]] = "throws"

\* witness of C19: the first hook threw and a later hook was not invoked
C19_Witness ==
    /\ willQuit.state = "threw"
    /\ willQuit.invoked = <<1>>
    /\ willQuit.hooks[2] = "returns"

\* startBackend() calls made
WorkerStarts == Cardinality({i \in DOMAIN bootLog : bootLog[i] = "startBackend"})

\* C20: the worker is started at most once: second-instance launches and
\* restarts dispatch without starting another worker, and every window
\* they load uses the port the one worker reported.
C20_OneWorker ==
    /\ WorkerStarts <= 1
    /\ dispatched > 0 => WorkerStarts = 1
    /\ \A w \in loaded :
           /\ backend.state = "resolved"
           /\ w[2] = backend.value
           /\ w[2] \in Ports

\* witness of C20: a second-instance launch and a restart each loaded a
\* window, the worker having been started once
C20_Witness ==
    /\ WorkerStarts = 1
    /\ \E port \in Ports : {<<"second-instance", port>>, <<"restart", port>>} \subseteq loaded

\* ------------------------------------------------ claims: command dispatch
\* C21: for a second-instance launch, no path given opens the default
\* window; a path that resolves opens a window with the resolved path as
\* workspace; a path that cannot be resolved opens the default window and
\* logs a diagnostic, and no error propagates to the caller.
C21_SecondInstanceDispatch ==
    \A i \in DOMAIN lastDispatch :
        LET options == lastDispatch[i].options
            outcome == lastDispatch[i].outcome
            resolved == IF options.file = Undefined THEN Missing
                        ELSE realpath[PathResolve(cwd, options.file)]
        IN  options.secondInstance =>
                /\ ~outcome.threw
                /\ options.file = Undefined =>
                       outcome.opener = "openDefaultWindow" /\ ~outcome.logged
                /\ (options.file # Undefined /\ resolved # Missing) =>
                       /\ outcome.opener = "openWindowWithWorkspace"
                       /\ outcome.workspace = resolved
                       /\ ~outcome.logged
                /\ (options.file # Undefined /\ resolved = Missing) =>
                       outcome.opener = "openDefaultWindow" /\ outcome.logged

\* witness of C21: a second instance named a relative path that does not exist
C21_Witness ==
    \E i \in DOMAIN lastDispatch :
        /\ lastDispatch[i].options.secondInstance
        /\ lastDispatch[i].options.file \in RelativePaths
        /\ lastDispatch[i].outcome.opener = "openDefaultWindow"
        /\ lastDispatch[i].outcome.logged

C23_DebouncedSave ==
    /\ \A w \in DOMAIN saveWin :
          /\ Cardinality(saveWin[w].timers) <= 1
          /\ \A t \in saveWin[w].timers : t[2] = saveWin[w].lastEventAt + SaveDelay
          /\ saveWin[w].burst > 0 <=> saveWin[w].timers # {}
    /\ \A i \in DOMAIN lastSave :
          /\ lastSave[i].kind = "delayed" =>
                /\ lastSave[i].burst >= 1
                /\ lastSave[i].at = lastSave[i].lastEventAt + SaveDelay
          /\ (lastSave[i].kind = "close" /\ ~lastSave[i].writeFails) =>
                /\ lastSave[i].result = "saved"
                /\ lastSave[i].after = <<saveWin[lastSave[i].win].size>>

\* witness of C23: one delayed save for a burst of three events, the last of
\* them later than the first
C23_Witness ==
    \E i \in DOMAIN lastSave :
        /\ lastSave[i].kind = "delayed"
        /\ lastSave[i].burst = 3
        /\ lastSave[i].lastEventAt > 0
        /\ lastSave[i].result = "saved"
        /\ lastSave[i].after = <<3>>

\* C25: saveWindowState never propagates an error: when the window is
\* destroyed or missing, or the capture or the store write throws, the call
\* returns normally and the persisted record is as it was before the call.
C25_SaveNeverThrows ==
    \A i \in DOMAIN lastSave :
        /\ lastSave[i].result # "threw"
        /\ (lastSave[i].target # "open" \/ lastSave[i].writeFails) =>
               /\ lastSave[i].after = lastSave[i].before
               /\ stored = lastSave[i].before
        /\ lastSave[i].result = "caught" => lastSave[i].logged

\* witness of C25: a save on a destroyed window with a record persisted
C25_Witness ==
    \E i \in DOMAIN lastSave :
        /\ lastSave[i].target = "destroyed"
        /\ lastSave[i].result = "caught"
        /\ lastSave[i].before # <<>>
        /\ stored = lastSave[i].before

\* C26: once the 'closed' event of a window has been processed none of its
\* delayed-save timers is pending, and no save is attempted for it.
C26_ClosedCancelsDelayedSave ==
    /\ \A w \in DOMAIN saveWin : saveWin[w].state = "closed" => saveWin[w].timers = {}
    /\ \A i \in DOMAIN lastSave : lastSave[i].target # "destroyed"

\* the Menu objects on display
Displayed == {menu \in DOMAIN popups : popups[menu].displayed}

\* C24: a popup opened with id m is held in openPopups under key m for as
\* long as it is displayed; when it is dismissed the entry is removed and
\* the window that opened it has received exactly one on-close notification
\* with m; a close-popup request for an id not in openPopups does nothing.
C24_PopupHeldWhileDisplayed ==
    /\ \A menu \in Displayed :
          /\ popups[menu].menuId \in DOMAIN openPopups
          /\ openPopups[popups[menu].menuId] = menu
    /\ \A menuId \in DOMAIN openPopups : openPopups[menuId] \in Displayed
    /\ \A menu \in DOMAIN popups :
          popups[menu].notices = IF popups[menu].displayed THEN 0 ELSE 1
    /\ \A i \in DOMAIN lastControl :
          (lastControl[i].channel = "closePopup" /\ lastControl[i].found = 0) =>
              ~lastControl[i].delivered

\* the Menu object `menu` is the one openPopups holds under its id
HeldUnderItsId(open, menu) ==
    /\ popups[menu].menuId \in DOMAIN open
    /\ open[popups[menu].menuId] = menu

\* C38: when a popup with id m is opened again before an earlier popup with
\* id m was dismissed, the dismissal of the earlier popup does not remove the
\* later popup's entry, so a close-popup request for m still reaches it.
C38_DismissalKeepsLaterPopup ==
    [][\A later \in Displayed :
          (/\ HeldUnderItsId(openPopups, later)
           /\ \E earlier \in Displayed \ {later} :
                 /\ popups[earlier].menuId = popups[later].menuId
                 /\ ~popups'[earlier].displayed
           /\ popups'[later].displayed)
          => (/\ popups[later].menuId \in DOMAIN openPopups'
              /\ openPopups'[popups[later].menuId] = later)]_vars

\* ---------------------------------------------- claims: reply channels
\* C27: every correlated request is tagged with freshly allocated
\* reply-channel names: no two requests, of the same or of different kinds,
\* share a reply-channel name.
C27_FreshReplyChannels ==
    /\ ~clash
    /\ \A prefix \in {"openUrl", "aboutToClose", "confirm-", "cancel-"} :
          \A n \in 0..MaxAllocations :
              ChannelString(prefix, n) \in usedNames => n < replyCounter

\* witness of C27: a close request was issued with the number 1, an
\* openUrl request with the number 10, after an aboutToClose request
C27_Witness ==
    /\ {ChannelString("confirm-", 1), ChannelString("cancel-", 1),
        ChannelString("openUrl", 10), ChannelString("aboutToClose", 0)}
           \subseteq usedNames
    /\ replyCounter > 10

\* ------------------------------------------ claims: unanswered requests
\* request i has not settled and both its reply channels are listened on
Outstanding(requests, listeners, i) ==
    /\ requests[i].state = "pending"
    /\ ReplyChannels(requests[i].kind, i - 1) \subseteq listeners

\* C28: correlated requests have no timeout. A request is outstanding from
\* the moment it is issued, and a step in which no reply to it arrives
\* leaves it outstanding: unresolved, with its reply listeners registered.
\* For openUrl: when the window being asked closes, and from then on, the
\* call stays at that window and asks no window later in the activation
\* stack.
C28_NoTimeout ==
    [][/\ \A i \in 1..Len(ipcRequests') :
            (i > Len(ipcRequests) \/
                (Outstanding(ipcRequests, ipcListeners, i)
                    /\ ipcReplies'[i] = ipcReplies[i]))
                => Outstanding(ipcRequests', ipcListeners', i)
       /\ (urlState = "awaiting" /\ urlAwait \notin windows') =>
            (urlState' = "awaiting" /\ urlAwait' = urlAwait /\ urlAsked' = urlAsked)
      ]_vars

\* witness of C28: openUrl waits for a closed window while another window is
\* open and was not asked, and one request was answered while an earlier
\* one is still outstanding
C28_Witness ==
    /\ urlState = "awaiting"
    /\ urlAwait \notin windows
    /\ \E id \in windows : id \notin Range(urlAsked)
    /\ \E i, j \in 1..Len(ipcRequests) :
          /\ i < j
          /\ ipcRequests[j].state = "resolved"
          /\ ipcReplies[i] = <<>>
          /\ Outstanding(ipcRequests, ipcListeners, i)

\* ------------------------------------------ claims: chrome mode and menus
\* the sources of the chrome mode in priority order, each with the value it
\* defines or NotSet
ChromeSources(in) ==
    <<IF in.env = "1" THEN "custom" ELSE NotSet,
      IF in.platform = "darwin" THEN "native" ELSE NotSet,
      IF ~in.windowstate.present THEN NotSet
      ELSE CASE in.windowstate.frame = "true" -> "native"
             [] in.windowstate.frame = "false" -> "custom"
             [] OTHER -> NotSet,
      IF in.preferences.present /\ in.preferences.titleBarStyle \in {"native", "custom"}
      THEN in.preferences.titleBarStyle ELSE NotSet,
      IF in.platform = "win32" THEN "custom" ELSE "native">>

RECURSIVE FirstDefined(_)
FirstDefined(sources) ==
    IF sources = <<>> THEN NotSet
    ELSE IF Head(sources) # NotSet THEN Head(sources)
    ELSE FirstDefined(Tail(sources))

\* C29: the chrome mode chosen at boot is the first defined value among the
\* environment override, macOS, the persisted frame choice, the configured
\* preference when it is 'native' or 'custom', and the platform default.
C29_ChromePriority ==
    chromeInput # <<>> =>
        useNativeWindowFrame = (FirstDefined(ChromeSources(chromeInput)) = "native")

\* witness of C29: on Linux a persisted custom frame decided against a
\* configured 'native' preference
C29_Witness ==
    /\ chromeInput # <<>>
    /\ chromeInput.platform = "linux"
    /\ chromeInput.env # "1"
    /\ chromeInput.windowstate = [present |-> TRUE, frame |-> "false"]
    /\ chromeInput.preferences = [present |-> TRUE, titleBarStyle |-> "native"]
    /\ ~useNativeWindowFrame

\* the menu a notification is about: the application menu on macOS, the
\* sender's window menu elsewhere
TargetMenu(sender) ==
    IF IsOSX(platform) THEN applicationMenu ELSE windowMenu[sender[2]]

\* C30: a set-menu notification installs the rebuilt menu when it carries a
\* menu tree and clears the menu when it carries null or undefined, and in
\* both cases the handler completes without throwing.
C30_SetAndClearMenu ==
    lastSetMenu # <<>> =>
        /\ ~lastSetMenu.threw
        /\ (IsOSX(platform) \/ lastSetMenu.sender[2] # 0) =>
              TargetMenu(lastSetMenu.sender) =
                  IF lastSetMenu.menu.kind = "array"
                  THEN BuildFromTemplate(FromMenuDto(lastSetMenu.sender,
                                                     lastSetMenu.menuId,
                                                     lastSetMenu.menu.items))
                  ELSE NoMenu

\* the template has the items of the tree in the same order at every level,
\* with id, label, type, enabled and visible copied, the accelerator kept iff
\* it is an ASCII string, and a click handler sending (menuId, handlerId) to
\* the sender iff the item has a handler id
RECURSIVE SameShape(_, _, _, _)
SameShape(template, dtos, sender, menuId) ==
    /\ Len(template) = Len(dtos)
    /\ \A i \in 1..Len(dtos) :
        LET t == template[i]
            d == dtos[i]
            ascii == d.accelerator # NoString
                        /\ \A k \in 1..Len(d.accelerator) : d.accelerator[k] <= 127
        IN  /\ t.id = d.id /\ t.label = d.label /\ t.type = d.type
            /\ t.enabled = d.enabled /\ t.visible = d.visible
            /\ t.accelerator = (IF ascii THEN d.accelerator ELSE NoString)
            /\ t.click = (IF d.handlerId # NoHandler
                          THEN <<sender[1], menuId, d.handlerId>> ELSE <<>>)
            /\ t.hasSubmenu = d.hasSubmenu
            /\ SameShape(t.submenu, d.submenu, sender, menuId)

\* C31: fromMenuDto maps a menu tree to a template of the same shape, passes
\* an accelerator through iff it is an ASCII string, and gives an item a
\* click handler sending (menuId, handlerId) iff it has a handlerId.
C31_TemplateMirrorsTree ==
    (/\ lastSetMenu # <<>>
     /\ lastSetMenu.menu.kind = "array"
     /\ (IsOSX(platform) \/ lastSetMenu.sender[2] # 0)) =>
        /\ TargetMenu(lastSetMenu.sender).kind = "menu"
        /\ SameShape(TargetMenu(lastSetMenu.sender).items, lastSetMenu.menu.items,
                     lastSetMenu.sender, lastSetMenu.menuId)

\* ------------------------------------------------ claims: display layout
\* the number of entries of ds that equal d
Occurrences(ds, d) == Cardinality({i \in 1..Len(ds) : ds[i] = d})

\* the same displays are attached, in whatever order they are enumerated
SameDisplays(a, b) == \A d \in DisplayBounds : Occurrences(a, d) = Occurrences(b, d)

\* C32: the display-layout fingerprint is order-independent and changes when
\* a display's bounds change or a display is added or removed: two
\* enumerations have the same fingerprint exactly when they list the same
\* displays.
C32_FingerprintIdentifiesLayout ==
    layoutReads # <<>> =>
        ((layoutReads[1].savedLayout = layoutReads[1].currentLayout)
            <=> SameDisplays(layoutReads[1].saved, layoutReads[1].current))

\* witness of C32: two displays enumerated in the opposite order, one of them
\* left of the origin, give one fingerprint
C32_Witness ==
    /\ layoutReads # <<>>
    /\ Len(layoutReads[1].saved) = 2
    /\ layoutReads[1].saved[1].x < 0
    /\ layoutReads[1].saved[1] # layoutReads[1].saved[2]
    /\ layoutReads[1].current = <<layoutReads[1].saved[2], layoutReads[1].saved[1]>>
    /\ layoutReads[1].savedLayout = layoutReads[1].currentLayout

\* ------------------------------------------- claims: openUrl under events
\* C33: within one openUrl call every open window is asked at most once and
\* no open window ahead of the accepting one is skipped, also when focus or
\* close events change the activation stack while a reply is awaited.
C33_AskedAtMostOnce ==
    [][urlState = "awaiting" =>
            /\ \A i, j \in 1..Len(urlAsked') : urlAsked'[i] = urlAsked'[j] => i = j
            /\ (urlState' = "done" /\ urlAccepted' # 0) =>
                  \A id \in windows :
                      id \in AheadOf(urlStart, urlAccepted') => id \in Range(urlAsked')
       ]_vars

\* ------------------------------------------ claims: token before content
\* C34: no window loads its content URL before the trust token has been
\* bound to the worker endpoint, also when second-instance launches arrive
\* while the host is still booting.
C34_TokenBoundBeforeLoad ==
    \A l \in loaded : tokenUrl # 0 /\ tokenUrl = l[2]

\* ------------------------------------------------- claims: early window
\* C35: the early-created initial window is handed out by reuseOrCreateWindow
\* at most once, later callers get windows of their own, and a first launch
\* with the early window or the splash screen enabled ends with exactly one
\* main window, which is the early one.
C35_EarlyWindowReusedOnce ==
    /\ \A i, j \in 1..Len(early.handed) :
          early.handed[i].window = early.handed[j].window => i = j
    /\ Cardinality({i \in 1..Len(early.handed) : early.handed[i].reused}) <= 1
    /\ (Callers(early) = {"first"} /\ early.pc # "off") =>
          /\ early.created = 1
          /\ early.handed[1].reused

\* witness of C35: a second instance took the early window during the boot
\* and the first-launch dispatch created a window of its own
C35_Witness ==
    /\ Len(early.handed) = 2
    /\ early.handed[1] = [caller |-> "second-instance", window |-> 1, reused |-> TRUE]
    /\ early.handed[2] = [caller |-> "first", window |-> 2, reused |-> FALSE]

\* ------------------------------------------------- claims: reply sender
\* C36: a correlated request sent to window W is resolved only by a reply
\* that comes from W.
C36_ResolvedByTargetOnly ==
    \A i \in 1..Len(targeted.requests) :
        targeted.requests[i].state = "resolved" =>
            targeted.requests[i].resolvedBy = targeted.requests[i].target

\* ------------------------------------------------- claims: token cookie
\* C37: the session-token cookie is only ever installed against the worker's
\* endpoint http://localhost:<worker port>, whatever requests windows send.
C37_CookieOnWorkerEndpointOnly ==
    TokenCookieUrls \subseteq {LocalEndpoint(backendPort)}

\* ------------------------------------------------------------ claims: restart
\* C3: when the close requested by restart() is vetoed, the `restarting` flag
\* is rolled back to false (it is false once no other restart is in
\* progress), the vetoed request never runs a relaunch, even if its window is
\* closed later, and a later 'window-all-closed' is not ignored.
C3_VetoRollsBackRestarting ==
    \A i \in DOMAIN restartReqs :
        restartReqs[i].state = "vetoed" =>
            /\ restartReqs[i].relaunches = 0
            /\ (\A j \in DOMAIN restartReqs : ~InProgress(restartReqs[j]))
                  => ~restarting
            /\ ~idleSuppressed

\* C4: while a restart the window confirmed has not finished its relaunch,
\* `restarting` is true and 'window-all-closed' requests no quit; the
\* relaunch of a confirmed restart runs exactly once, and the flag is cleared
\* only after it.
C4_RestartingHeldUntilRelaunched ==
    /\ ~quitDuringRestart
    /\ \A i \in DOMAIN restartReqs :
          /\ ConfirmedInProgress(restartReqs[i]) => restarting
          /\ restartReqs[i].relaunches <= 1
          /\ (restartReqs[i].confirmed /\ restartReqs[i].state = "done")
                => restartReqs[i].relaunches = 1

\* the relaunches the restart() calls for window id have run
RECURSIVE RelaunchesFor(_, _)
RelaunchesFor(reqs, id) ==
    IF reqs = <<>> THEN 0
    ELSE (IF Head(reqs).win = id THEN Head(reqs).relaunches ELSE 0)
         + RelaunchesFor(Tail(reqs), id)

\* C39: `restarting` is true only while a restart is in progress (a
\* close-completion listener of a restart() call is pending or its relaunch
\* is running); a restart request from a webContents without a registered
\* window leaves it false, and two restart requests for the same window
\* issued before it closes lead to exactly one relaunch.
C39_RestartingOnlyInProgress ==
    /\ restarting => \E i \in DOMAIN restartReqs :
                        \/ ListenerRegistered(restartReqs[i])
                        \/ restartReqs[i].state = "relaunching"
    /\ \A id \in 1..created : RelaunchesFor(restartReqs, id) <= 1

\* -------------------------------------------- claims: correlated requests
CloseKinds == {"requestClose", "requestSecondaryClose"}

\* C5: a correlated close request resolves exactly once, with true when the
\* first reply came on its confirm channel and false when it came on its
\* cancel channel; it stays pending until a reply arrives; once resolved no
\* listener is left on either reply channel, so a later reply runs nothing.
C5_CloseRequestResolvesOnce ==
    \A i \in 1..Len(ipcRequests) :
        ipcRequests[i].kind \in CloseKinds =>
            LET r == ipcRequests[i]
                replies == ipcReplies[i]
                chans == ReplyChannels(r.kind, i - 1)
            IN  /\ ipcHandled[i] <= 1
                /\ (replies = <<>>) <=> (r.state = "pending")
                /\ replies # <<>> => r.result = (replies[1] = "confirm-")
                /\ r.state = "resolved" => chans \cap ipcListeners = {}
                /\ r.state = "pending" => chans \subseteq ipcListeners

\* witness of C5: a close request cancelled first and confirmed afterwards
C5_Witness ==
    \E i \in 1..Len(ipcRequests) :
        /\ ipcRequests[i].kind \in CloseKinds
        /\ ipcReplies[i] = <<"cancel-", "confirm-">>
        /\ ipcRequests[i].state = "resolved"
        /\ ipcRequests[i].result = FALSE

\* ------------------------------------- claims: worker supervision and boot
\* what the listener of the child's event e does to a pending promise
FirstEventOutcome(e) ==
    CASE e.type = "message" -> [state |-> "resolved", via |-> "message", value |-> e.value]
      [] e.type = "error" -> [state |-> "rejected", via |-> "error", value |-> e.value]
      [] e.type = "exit" -> [state |-> "rejected", via |-> "exit", value |-> e.value]

\* C6: in forked mode startBackend() settles exactly once, by the first event
\* of the child: a port message resolves it with that port, an exit rejects
\* it with the exit code, an error rejects it with the error; it is pending
\* before the first event and later events do not change the result.
C6_BackendSettlesOnFirstEvent ==
    ~noBackendFork =>
        IF childEvents = <<>>
        THEN backend.state \in {"none", "pending"}
        ELSE backend = FirstEventOutcome(childEvents[1])

\* witness of C6: the worker reported its port and exited afterwards
C6_Witness ==
    /\ Len(childEvents) >= 2
    /\ childEvents[1].type = "message"
    /\ childEvents[2].type = "exit"
    /\ backend.state = "resolved"

\* C7: the 'quit' handler never throws when the worker has already exited:
\* with exitCode or signalCode set no signal is sent and it returns; a signal
\* delivery failing with ESRCH is swallowed; any other delivery error is
\* rethrown; a worker that is gone at quit never makes the handler throw.
C7_QuitToleratesExitedWorker ==
    quit.state # "none" =>
        /\ ~quit.running =>
               /\ quit.outcome = "nosignal"
               /\ quit.signalled = {}
               /\ quit.state = "returned"
        /\ quit.outcome = "ESRCH" => quit.state = "returned"
        /\ quit.outcome \notin {"ok", "ESRCH", "nosignal"} => quit.state = "threw"
        /\ child.pid \notin quit.group => quit.state = "returned"

\* witness of C7: the worker was gone at quit, its exit not yet observed, and
\* the signal delivery failed with ESRCH
C7_Witness ==
    /\ quit.state = "returned"
    /\ quit.outcome = "ESRCH"
    /\ quit.running
    /\ child.pid \notin quit.group

\* C8: on quit with a forked worker that is still running, the termination
\* signal reaches the worker's whole process group: the worker and every
\* live descendant in its group.
C8_SignalReachesProcessGroup ==
    (quit.state # "none" /\ quit.running /\ child.pid \in quit.group
        /\ quit.outcome = "ok") =>
            quit.signalled = quit.group

BootOrder ==
    <<"hookApplicationEvents", "showInitialWindow", "startBackend", "backendPort",
      "tokenBound", "startContributions", "handleMainCommand">>

IsPrefix(s, t) == Len(s) <= Len(t) /\ s = SubSeq(t, 1, Len(s))

Logged(step) == step \in Range(bootLog)

\* C9: on first launch the boot steps happen in this order, each completed
\* before the next begins: event hooks registered, worker started, worker
\* port known, token bound to http://localhost:<port>, every onStart hook
\* called and settled, and only then the dispatch handleMainCommand.
C9_BootOrder ==
    /\ IsPrefix(bootLog, BootOrder)
    /\ Logged("backendPort") =>
           /\ backend.state = "resolved"
           /\ backendPort = backend.value
           /\ backendPort \in Ports
    /\ Logged("tokenBound") => tokenUrl = backendPort
    /\ ~Logged("tokenBound") => tokenUrl = 0
    /\ ~Logged("startContributions") => \A i \in DOMAIN hookState : hookState[i] = "idle"
    /\ Logged("handleMainCommand") =>
           \A i \in DOMAIN hookState : hookState[i] \in {"none", "resolved"}

\* witness of C9: the dispatch ran after hooks that returned promises
C9_Witness ==
    /\ bootPc = "dispatched"
    /\ Logged("handleMainCommand")
    /\ \A i \in DOMAIN hookState : hookState[i] = "resolved"

\* C10: a startup failure aborts the launch: when the worker fails to start
\* or an onStart hook rejects or throws, handleMainCommand is never called;
\* on a worker failure the token is never bound and no hook is called.
C10_FailureAbortsLaunch ==
    /\ backend.state = "rejected" =>
           /\ ~Logged("handleMainCommand")
           /\ ~Logged("tokenBound") /\ tokenUrl = 0
           /\ \A i \in DOMAIN hookState : hookState[i] = "idle"
    /\ (\E i \in DOMAIN hookState : hookState[i] \in {"rejected", "threw"}) =>
           ~Logged("handleMainCommand")

\* witness of C10: the worker exited before reporting a port and the launch
\* was given up
C10_Witness ==
    /\ bootPc = "failed"
    /\ backend.state = "rejected"
    /\ backend.via = "exit"

Init ==
    /\ InitWin
    /\ InitUrl
    /\ InitIpc
    /\ InitBoot
    /\ InitWorker
    /\ InitRestart
    /\ InitGeom
    /\ InitSplash
    /\ InitControl
    /\ InitLife
    /\ InitMore

Next ==
    \/ CreateWindow
    \/ \E id \in 1..MaxWindows : OnDidClose(id)
    \/ \E id \in 1..MaxWindows : OnFocus(id)
    \/ OpenUrl
    \/ \E accept \in BOOLEAN : OpenUrlReply(accept)

Spec == Init /\ [][Next]_vars

SpecIpc == Init /\ [][NextIpc]_vars

\* requests and the windows they are sent to
NextPending ==
    \/ CreateWindow
    \/ \E id \in 1..MaxWindows : OnDidClose(id)
    \/ OpenUrl
    \/ \E accept \in BOOLEAN : OpenUrlReply(accept)
    \/ RequestClose
    \/ \E prefix \in {"confirm-", "cancel-"}, n \in 0..(MaxRequests - 1) :
            IpcReply(prefix, n, TRUE)


SpecBoot == Init /\ [][NextBoot]_vars

SpecRestart == Init /\ [][NextRestart]_vars

\* a session with some windows open, near the default position
InitGeometry ==
    /\ InitUrl /\ InitIpc /\ InitBoot /\ InitWorker /\ InitRestart /\ InitSplash
    /\ InitControl /\ InitLife /\ InitMore
    /\ ~noBackendFork
    /\ \E config \in NearConfigs : InitSession(config)

SpecGeometry == InitGeometry /\ [][NextGeometry]_vars

\* a session with some windows open, anywhere on the grid
InitOverlap ==
    /\ InitUrl /\ InitIpc /\ InitBoot /\ InitWorker /\ InitRestart /\ InitSplash
    /\ InitControl /\ InitLife /\ InitMore
    /\ ~noBackendFork
    /\ \E config \in GridConfigs : InitSession(config)

SpecOverlap == InitOverlap /\ [][NextOverlap]_vars

SpecSplash == Init /\ [][NextSplash]_vars

SpecControl == Init /\ [][NextControl]_vars

SpecShutdown == Init /\ [][NextShutdown]_vars

SpecLifetime == Init /\ [][NextLifetime]_vars

SpecDispatch == Init /\ [][NextDispatch]_vars

SpecPersist == Init /\ [][NextPersist]_vars

\* the launch inputs play no part in the requests: one launch is followed
InitOneLaunch == Init /\ ~noBackendFork /\ cwd = 1

SpecChannel == InitOneLaunch /\ [][NextChannel]_vars

SpecPending == InitOneLaunch /\ [][NextPending]_vars

SpecChrome == InitOneLaunch /\ [][NextChrome]_vars

SpecMenu == InitOneLaunch /\ [][NextMenu]_vars

SpecLayout == InitOneLaunch /\ [][NextLayout]_vars

SpecEarly == InitOneLaunch /\ [][NextEarly]_vars

SpecTargeted == InitOneLaunch /\ [][NextTargeted]_vars

SpecToken == InitOneLaunch /\ [][NextToken]_vars

\* timers that are due fire and time passes
SpecSplashLive ==
    /\ Init
    /\ [][NextSplash]_vars
    /\ WF_vars(MinTimeFires)
    /\ WF_vars(MaxTimeFires)
    /\ WF_vars(Tick)

====
